---- MODULE Spec2Model ----
(***************************************************************************)
(* The Gaseous hello container of v2Gas/Go: frame codec, template          *)
(* registry, compression dispatch, ClientHello parser, fingerprint         *)
(* matcher and the pack / unpack orchestrators.                            *)
(*                                                                         *)
(* Bytes are naturals 0..255, Go strings and []byte are sequences of       *)
(* bytes.  Go slices are 0-based and half open, Slice(b, lo, hi) is        *)
(* b[lo:hi].  A Go function returning (value, error) is an operator        *)
(* returning a record [err, out]; err = NoErr is the nil error and         *)
(* err in Panics is a run-time panic that unwinds the call.                *)
(***************************************************************************)
EXTENDS Integers, Sequences, FiniteSets, TLC

VARIABLES
    gaseousTemplates,   \* gaseousTemplates.Templates : map[uint16]*HelloTemplate
    intBits,            \* width of Go's int in this build (32 or 64)
    gaseousDecompressAlgo,  \* the process-wide default set by SetGaseousDecompressAlgo
    pc,                 \* "idle" between calls, "done" while a call's result is held
    call,               \* the call in progress: operation and arguments
    ret,                \* what the call returned
    attempts            \* the compressors the call in progress has called, in order

vars == <<gaseousTemplates, intBits, gaseousDecompressAlgo, pc, call, ret, attempts>>

(*************************** program constants *****************************)
GaseousCompressNone == 0
GaseousCompressFlate == 1
GaseousCompressGzip == 2
GaseousCompressBrotli == 3
GaseousCompressZstd == 4
GaseousCompressLZ4 == 5
GaseousCompressXZ == 6
GaseousCompressLZ4Block == 7

GaseousHelloMagic == <<71, 83>>          \* "GS"
GaseousHelloVersion == 1
GaseousHelloTypeClient == 1
GaseousHelloTypeServer == 2
gaseousHelloHeaderSize == 11
recordTypeGaseousHello == 254

FingerprintTemplID == 65535              \* the literal 0xffff of pack and unpack

NoErr == ""
PanicSliceBounds == "panic: slice bounds out of range"
PanicNilDeref == "panic: nil pointer dereference"
PanicMakeSlice == "panic: makeslice: len out of range"
Panics == {PanicSliceBounds, PanicNilDeref, PanicMakeSlice}
ErrGaseousMagic == "gaseous: bad magic"
ErrGaseousVersion == "gaseous: bad version"
ErrGaseousAlgo == "gaseous: unsupported compression algorithm"
ErrGaseousTemplate == "gaseous: unknown template ID"
ErrGaseousTrunc == "gaseous: truncated/invalid data"
ErrGaseousType == "gaseous: unknown hello type"
ErrNotImplemented == "not implemented: ClientHello unpack on server side"
ErrCodec == "codec: corrupt input"
ErrLZ4BlockTrunc == "lz4block: truncated input"
ErrLZ4BlockSize == "lz4block: decompressed size mismatch"
ErrLZ4ShortBuffer == "lz4: invalid source or destination buffer too short"
ErrJSON == "json: cannot unmarshal"
ErrUnknownSpec == "unknown uTLS spec"
ErrAllCompression == "all compression failed"
\* the run-time's report of an unsynchronized map access; the process ends
FatalConcurrentMap == "fatal error: concurrent map read and map write"

(******************************* bounds ************************************)
MaxPlain == 2            \* longest opaque plaintext payload of an unpack input
MaxSkeleton == 1         \* longest template skeleton registered

(***************************** byte helpers ********************************)
MaxInt32 == 2147483647

Ok(bytes) == [err |-> NoErr, out |-> bytes]
Fail(e) == [err |-> e, out |-> <<>>]

Slice(b, lo, hi) == SubSeq(b, lo + 1, hi)

PutUint16(v) == <<(v \div 256) % 256, v % 256>>
PutUint32(v) == PutUint16(v \div 65536) \o PutUint16(v % 65536)
\* binary.BigEndian.Uint16(b[off:])
Uint16(b, off) == b[off + 1] * 256 + b[off + 2]
\* binary.BigEndian.Uint32(b[off:]), kept as two 16-bit halves
Uint32(b, off) == [hi |-> Uint16(b, off), lo |-> Uint16(b, off + 2)]

Fill(byte, n) == [i \in 1..n |-> byte]

RECURSIVE Concat(_)
Concat(ss) == IF ss = <<>> THEN <<>> ELSE Head(ss) \o Concat(Tail(ss))

(***************************************************************************)
(* int(hdr.DataLen)+gaseousHelloHeaderSize in the build's int.  With a     *)
(* 64-bit int the sum is exact; every value of 2^31-11 or more is returned *)
(* as MaxInt32, which like the exact value exceeds every buffer length.    *)
(* With a 32-bit int the conversion and the addition wrap modulo 2^32.     *)
(***************************************************************************)
PayloadEnd(dataLen, bits) ==
    IF dataLen.hi < 32768 /\ dataLen.hi * 65536 + dataLen.lo <= MaxInt32 - gaseousHelloHeaderSize
    THEN dataLen.hi * 65536 + dataLen.lo + gaseousHelloHeaderSize
    ELSE IF bits = 64 THEN MaxInt32
    ELSE IF dataLen.hi < 32768
         THEN ((dataLen.hi * 65536 + dataLen.lo) - MaxInt32 - 1)
              + gaseousHelloHeaderSize + (-MaxInt32 - 1)
         ELSE (dataLen.hi - 65536) * 65536 + dataLen.lo + gaseousHelloHeaderSize

(*************************** template registry *****************************)
NilTemplate == [isNil |-> TRUE, Serialized |-> <<>>]
Template(skel) == [isNil |-> FALSE, Serialized |-> skel]

\* gaseousTemplates.Templates[id]: the zero value (nil) for an absent key
\* variant: an absent key yields an empty template instead of nil
LookupEmptyDefault(reg, id) == IF id \in DOMAIN reg THEN reg[id] ELSE Template(<<>>)

Lookup(reg, id) == IF id \in DOMAIN reg THEN reg[id] ELSE NilTemplate

\* variant: the payload copied in front of the skeleton
fillHelloTemplateSwapped(tmpl, params) ==
    IF tmpl.isNil THEN Fail(PanicNilDeref)
    ELSE Ok(params \o tmpl.Serialized)

fillHelloTemplate(tmpl, params) ==
    IF tmpl.isNil THEN Fail(PanicNilDeref)        \* tmpl.Serialized on a nil pointer
    ELSE Ok(tmpl.Serialized \o params)

(************************** compression dispatch ***************************)
(* The codecs are external libraries.  Each stream format is modelled by a *)
(* one-byte signature followed by the stored bytes, so that a stream of    *)
(* one format is rejected by the decoder of every other format and the     *)
(* empty input is no valid stream of any of them.                          *)
(***************************************************************************)
CodecSig(algo) == 192 + algo

codecCompress(algo, data) == <<CodecSig(algo)>> \o data
codecDecompress(algo, data) ==
    IF Len(data) >= 1 /\ data[1] = CodecSig(algo) THEN Ok(Tail(data)) ELSE Fail(ErrCodec)

decompressFlate(data) == codecDecompress(GaseousCompressFlate, data)
decompressGzip(data) == codecDecompress(GaseousCompressGzip, data)
decompressBrotli(data) == codecDecompress(GaseousCompressBrotli, data)
decompressZstd(data) == codecDecompress(GaseousCompressZstd, data)
decompressLZ4(data) == codecDecompress(GaseousCompressLZ4, data)
decompressXZ(data) == codecDecompress(GaseousCompressXZ, data)

\* lz4.UncompressBlock(src, dst): [err, n, bytes]
UncompressBlock(src, dstLen) ==
    IF src = <<>> THEN [err |-> NoErr, out |-> <<>>]
    ELSE LET d == codecDecompress(GaseousCompressLZ4Block, src) IN
         IF d.err # NoErr THEN d
         ELSE IF Len(d.out) > dstLen THEN Fail(ErrLZ4ShortBuffer)
         ELSE d

\* lz4block.Decode(dst, src); out is dst[:n]
Decode(dstLen, src) ==
    LET u == UncompressBlock(src, dstLen) IN
    IF u.err # NoErr THEN u
    ELSE IF Len(u.out) # dstLen THEN Fail(ErrLZ4BlockSize)
    ELSE u

decompressLZ4Block(data, bits) ==
    IF Len(data) < 4 THEN Fail(ErrLZ4BlockTrunc)
    ELSE LET unSize == Uint32(data, 0) IN
         \* make([]byte, unSize): a length beyond the build's int panics
         IF bits = 32 /\ unSize.hi >= 32768 THEN Fail(PanicMakeSlice)
         \* a size of 65536 or more is kept as MaxInt32: no modelled block is that long
         ELSE Decode(IF unSize.hi # 0 THEN MaxInt32 ELSE unSize.lo, Slice(data, 4, Len(data)))

\* decompressLZ4Block of the shared file of part_001: the block decoder is
\* called directly and dst[:n] is returned
decompressLZ4BlockP1(data, bits) ==
    IF Len(data) < 4 THEN Fail(ErrLZ4BlockTrunc)
    ELSE LET unSize == Uint32(data, 0) IN
         IF bits = 32 /\ unSize.hi >= 32768 THEN Fail(PanicMakeSlice)
         ELSE UncompressBlock(Slice(data, 4, Len(data)),
                              IF unSize.hi # 0 THEN MaxInt32 ELSE unSize.lo)

gaseousDecompressData(data, algo, bits) ==
    CASE algo = GaseousCompressNone -> Ok(data)
      [] algo = GaseousCompressFlate -> decompressFlate(data)
      [] algo = GaseousCompressGzip -> decompressGzip(data)
      [] algo = GaseousCompressBrotli -> decompressBrotli(data)
      [] algo = GaseousCompressZstd -> decompressZstd(data)
      [] algo = GaseousCompressLZ4 -> decompressLZ4(data)
      [] algo = GaseousCompressXZ -> decompressXZ(data)
      [] algo = GaseousCompressLZ4Block -> decompressLZ4Block(data, bits)
      [] OTHER -> Fail(ErrGaseousAlgo)

(******************************* frame header ******************************)
\* variant: the version read one byte early, from the magic's second byte
ReadHeaderVersionOffByOne(data) ==
    [Magic |-> Slice(data, 0, 2),
     Version |-> data[2],
     Algo |-> data[4],
     HelloType |-> data[5],
     TemplID |-> Uint16(data, 5),
     DataLen |-> Uint32(data, 7)]

ReadHeader(data) ==
    [Magic |-> Slice(data, 0, 2),
     Version |-> data[3],
     Algo |-> data[4],
     HelloType |-> data[5],
     TemplID |-> Uint16(data, 5),
     DataLen |-> Uint32(data, 7)]

(************************* server-direction unpack *************************)
\* UnpackServerHelloGaseous up to the first registry lookup: the error, or NoErr
serverHeaderCheck(data) ==
    IF Len(data) < gaseousHelloHeaderSize THEN ErrGaseousTrunc
    ELSE LET hdr == ReadHeader(data) IN
    IF hdr.Magic # GaseousHelloMagic THEN ErrGaseousMagic
    ELSE IF hdr.Version # GaseousHelloVersion THEN ErrGaseousVersion
    ELSE IF hdr.HelloType # GaseousHelloTypeServer THEN ErrGaseousType
    ELSE NoErr

\* UnpackServerHelloGaseous between the two registry lookups: [err, out = decompressed]
serverPayload(data, bits) ==
    LET hdr == ReadHeader(data)
        end == PayloadEnd(hdr.DataLen, bits) IN
    IF end > Len(data) THEN Fail(ErrGaseousTrunc)
    ELSE IF end < gaseousHelloHeaderSize THEN Fail(PanicSliceBounds)
    ELSE gaseousDecompressData(Slice(data, gaseousHelloHeaderSize, end), hdr.Algo, bits)

UnpackServerHelloGaseous(data, reg, bits) ==
    IF serverHeaderCheck(data) # NoErr THEN Fail(serverHeaderCheck(data))
    ELSE IF ReadHeader(data).TemplID \notin DOMAIN reg THEN Fail(ErrGaseousTemplate)
    ELSE LET d == serverPayload(data, bits)
         IN IF d.err # NoErr THEN Fail(d.err)
            ELSE fillHelloTemplate(reg[ReadHeader(data).TemplID], d.out)

\* [helloType, err, out]
\* variant: the client type is dispatched to the server unpacker as well
UnpackAnyGaseousHelloNoClientCase(data, reg, bits) ==
    IF Len(data) < gaseousHelloHeaderSize
    THEN [helloType |-> 0, err |-> ErrGaseousTrunc, out |-> <<>>]
    ELSE LET helloType == data[5] IN
         CASE helloType \in {GaseousHelloTypeClient, GaseousHelloTypeServer} ->
                LET r == UnpackServerHelloGaseous(data, reg, bits) IN
                IF r.err \in Panics THEN [helloType |-> 0, err |-> r.err, out |-> <<>>]
                ELSE [helloType |-> 2, err |-> r.err, out |-> r.out]
           [] OTHER -> [helloType |-> helloType, err |-> ErrGaseousType, out |-> <<>>]

UnpackAnyGaseousHello(data, reg, bits) ==
    IF Len(data) < gaseousHelloHeaderSize
    THEN [helloType |-> 0, err |-> ErrGaseousTrunc, out |-> <<>>]
    ELSE LET helloType == data[5] IN
         CASE helloType = GaseousHelloTypeClient ->
                [helloType |-> 1, err |-> ErrNotImplemented, out |-> <<>>]
           [] helloType = GaseousHelloTypeServer ->
                LET r == UnpackServerHelloGaseous(data, reg, bits) IN
                IF r.err \in Panics THEN [helloType |-> 0, err |-> r.err, out |-> <<>>]
                ELSE [helloType |-> 2, err |-> r.err, out |-> r.out]
           [] OTHER -> [helloType |-> helloType, err |-> ErrGaseousType, out |-> <<>>]

(********************* FingerprintParams serialization *********************)
(* json.Marshal / json.Unmarshal of GaseousClientHelloParams, modelled as  *)
(* a tagged, length-prefixed byte format.  As in encoding/json a string    *)
(* field is coerced to valid UTF-8 (every byte of 0x80 or more, invalid    *)
(* on its own, becomes U+FFFD = EF BF BD) while []byte fields are kept     *)
(* exactly (base64).                                                       *)
(***************************************************************************)
LP(s) == <<Len(s)>> \o s

RECURSIVE jsonString(_)
jsonString(s) ==
    IF s = <<>> THEN <<>>
    ELSE (IF Head(s) >= 128 THEN <<239, 191, 189>> ELSE <<Head(s)>>) \o jsonString(Tail(s))

ZeroParams == [SpecType |-> <<>>, SNI |-> <<>>, ALPN |-> <<>>, Random |-> <<>>, SessionID |-> <<>>]

jsonMarshal(p) ==
    <<123>> \o LP(jsonString(p.SpecType)) \o LP(jsonString(p.SNI))
      \o <<Len(p.ALPN)>> \o Concat([i \in 1..Len(p.ALPN) |-> LP(jsonString(p.ALPN[i]))])
      \o LP(p.Random) \o LP(p.SessionID) \o <<125>>

\* the length-prefixed field at 1-based position i of b
ReadLP(b, i) ==
    IF i > Len(b) \/ i + b[i] > Len(b) THEN [ok |-> FALSE, val |-> <<>>, next |-> i]
    ELSE [ok |-> TRUE, val |-> SubSeq(b, i + 1, i + b[i]), next |-> i + b[i] + 1]

RECURSIVE ReadList(_, _, _)
ReadList(b, i, n) ==
    IF n = 0 THEN [ok |-> TRUE, val |-> <<>>, next |-> i]
    ELSE LET f == ReadLP(b, i) IN
         IF ~f.ok THEN [ok |-> FALSE, val |-> <<>>, next |-> i]
         ELSE LET r == ReadList(b, f.next, n - 1) IN
              [ok |-> r.ok, val |-> <<f.val>> \o r.val, next |-> r.next]

\* [err, params]
jsonUnmarshal(b) ==
    LET bad == [err |-> ErrJSON, params |-> ZeroParams] IN
    IF Len(b) < 2 \/ b[1] # 123 THEN bad
    ELSE LET spec == ReadLP(b, 2) IN
    IF ~spec.ok THEN bad
    ELSE LET sni == ReadLP(b, spec.next) IN
    IF ~sni.ok \/ sni.next > Len(b) THEN bad
    ELSE LET alpn == ReadList(b, sni.next + 1, b[sni.next]) IN
    IF ~alpn.ok THEN bad
    ELSE LET rnd == ReadLP(b, alpn.next) IN
    IF ~rnd.ok THEN bad
    ELSE LET sid == ReadLP(b, rnd.next) IN
    IF ~sid.ok \/ sid.next # Len(b) \/ b[sid.next] # 125 THEN bad
    ELSE [err |-> NoErr,
          params |-> [SpecType |-> spec.val, SNI |-> sni.val, ALPN |-> alpn.val,
                      Random |-> rnd.val, SessionID |-> sid.val]]

(************************** fingerprint database ***************************)
(* The uTLS database is external; four specs stand for it.  A spec has     *)
(* cipher suites, compression methods and a list of extensions, each of    *)
(* kind "SNI" (utls.SNIExtension), "ALPN" (utls.ALPNExtension) or "Other". *)
(***************************************************************************)
ExtSNI(name) == [kind |-> "SNI", Type |-> 0, ServerName |-> name, AlpnProtocols |-> <<>>, Body |-> <<>>]
ExtALPN(protos) == [kind |-> "ALPN", Type |-> 16, ServerName |-> <<>>, AlpnProtocols |-> protos, Body |-> <<>>]
ExtOther(type, body) == [kind |-> "Other", Type |-> type, ServerName |-> <<>>, AlpnProtocols |-> <<>>, Body |-> body]

ProtoH2 == <<104, 50>>       \* "h2"
ProtoH1 == <<104, 49>>       \* "h1"

IdChrome == <<67, 49>>       \* id.Str() of the first entry
IdFirefox == <<70, 49>>
IdSafari == <<83, 49>>
IdEdge == <<69, 49>>

\* the cipher suites of the largest spec
EdgeSuites == <<4865, 4866, 4867, 49195, 49199, 49196, 49200, 52393, 52392, 49171>>

allUTLSIDs == <<IdChrome, IdFirefox, IdSafari, IdEdge>>

\* utls.UTLSIdToSpec: [err, spec]
UTLSIdToSpec(id) ==
    CASE id = IdChrome ->
           [err |-> NoErr,
            spec |-> [CipherSuites |-> <<4865, 4866>>, CompressionMethods |-> <<0>>,
                      Extensions |-> <<ExtSNI(<<>>), ExtOther(23, <<>>), ExtALPN(<<ProtoH2, ProtoH1>>)>>]]
      [] id = IdFirefox ->
           [err |-> NoErr,
            spec |-> [CipherSuites |-> <<4865, 49195>>, CompressionMethods |-> <<0>>,
                      Extensions |-> <<ExtSNI(<<>>), ExtOther(23, <<>>)>>]]
      [] id = IdSafari ->
           [err |-> NoErr,
            spec |-> [CipherSuites |-> <<49195>>, CompressionMethods |-> <<0>>,
                      Extensions |-> <<ExtALPN(<<ProtoH1>>)>>]]
      [] id = IdEdge ->
           [err |-> NoErr,
            spec |-> [CipherSuites |-> EdgeSuites, CompressionMethods |-> <<0>>,
                      Extensions |-> <<ExtSNI(<<>>), ExtOther(23, <<>>), ExtALPN(<<ProtoH2, ProtoH1>>)>>]]
      [] OTHER ->
           [err |-> ErrUnknownSpec,
            spec |-> [CipherSuites |-> <<>>, CompressionMethods |-> <<>>, Extensions |-> <<>>]]

(*************************** ClientHello marshal ***************************)
(* The wire form of a ClientHello handshake message (RFC 5246 7.4.1.2), as *)
(* the fingerprint engine's hello.Marshal writes it and as parseClientHello*)
(* reads it.                                                               *)
(***************************************************************************)
PutUint24(v) == <<(v \div 65536) % 256, (v \div 256) % 256, v % 256>>

sniBody(name) == PutUint16(Len(name) + 3) \o <<0>> \o PutUint16(Len(name)) \o name
alpnBody(protos) ==
    LET l == Concat([i \in 1..Len(protos) |-> LP(protos[i])]) IN PutUint16(Len(l)) \o l

extBody(e) ==
    CASE e.kind = "SNI" -> sniBody(e.ServerName)
      [] e.kind = "ALPN" -> alpnBody(e.AlpnProtocols)
      [] OTHER -> e.Body

MarshalExt(e) == PutUint16(e.Type) \o PutUint16(Len(extBody(e))) \o extBody(e)

MarshalBody(h) ==
    LET cs == Concat([i \in 1..Len(h.CipherSuites) |-> PutUint16(h.CipherSuites[i])])
        ex == Concat([i \in 1..Len(h.Extensions) |-> MarshalExt(h.Extensions[i])])
    IN PutUint16(h.Version) \o h.Random \o LP(h.SessionID)
         \o PutUint16(Len(cs)) \o cs \o LP(h.CompressionMethods)
         \o (IF h.Extensions = <<>> THEN <<>> ELSE PutUint16(Len(ex)) \o ex)

MarshalHello(h) == <<1>> \o PutUint24(Len(MarshalBody(h))) \o MarshalBody(h)

(************************* fingerprint reconstructor ***********************)
ToLower(b) == IF b >= 65 /\ b <= 90 THEN b + 32 ELSE b
EqualFold(s, t) == Len(s) = Len(t) /\ \A i \in 1..Len(s) : ToLower(s[i]) = ToLower(t[i])

Min(S) == CHOOSE x \in S : \A y \in S : x <= y

setSNI(exts, sni) ==
    [i \in 1..Len(exts) |->
        IF sni # <<>> /\ exts[i].kind = "SNI" THEN [exts[i] EXCEPT !.ServerName = sni]
        ELSE exts[i]]
setALPN(exts, alpn) ==
    [i \in 1..Len(exts) |->
        IF Len(alpn) > 0 /\ exts[i].kind = "ALPN" THEN [exts[i] EXCEPT !.AlpnProtocols = alpn]
        ELSE exts[i]]

\* uc.ApplyPreset(&spec) then uc.HandshakeState.Hello: the engine draws the
\* random and the session id itself (entropy) unless the spec supplies them
ApplyPreset(spec, exts, random, sessionID) ==
    [Version |-> 771, Random |-> random, SessionID |-> sessionID,
     CipherSuites |-> spec.CipherSuites, CompressionMethods |-> spec.CompressionMethods,
     Extensions |-> exts]

buildUTLSClientHello(params, entropy) ==
    LET found == {i \in 1..Len(allUTLSIDs) : EqualFold(allUTLSIDs[i], params.SpecType)} IN
    IF found = {} THEN Fail(ErrUnknownSpec)
    ELSE LET s == UTLSIdToSpec(allUTLSIDs[Min(found)]) IN
         IF s.err # NoErr THEN Fail(s.err)
         ELSE LET exts == setALPN(setSNI(s.spec.Extensions, params.SNI), params.ALPN) IN
              \* the random and session id of params are not injected
              Ok(MarshalHello(ApplyPreset(s.spec, exts, entropy.random, entropy.sessionID)))

\* g_client.go
buildUTLSClientHelloGC(params, entropy) ==
    LET found == {i \in 1..Len(allUTLSIDs) : allUTLSIDs[i] = params.SpecType} IN
    IF found = {} THEN Fail(ErrUnknownSpec)
    ELSE LET s == UTLSIdToSpec(allUTLSIDs[Min(found)]) IN
         IF s.err # NoErr THEN Fail(s.err)
         ELSE LET exts == setALPN(setSNI(s.spec.Extensions, params.SNI), params.ALPN)
                  random == IF Len(params.Random) = 32 THEN params.Random ELSE entropy.random
                  sid == IF Len(params.SessionID) > 0 THEN params.SessionID ELSE entropy.sessionID
              IN Ok(MarshalHello(ApplyPreset(s.spec, exts, random, sid)))

(************************* client-direction unpack *************************)
\* the switch on hdr.Algo of UnpackClientHelloGaseous
clientAlgoSwitch(compressed, algo, bits) ==
    CASE algo = GaseousCompressNone -> Ok(compressed)
      [] algo = GaseousCompressFlate -> decompressFlate(compressed)
      [] algo = GaseousCompressGzip -> decompressGzip(compressed)
      [] algo = GaseousCompressBrotli -> decompressBrotli(compressed)
      [] algo = GaseousCompressZstd -> decompressZstd(compressed)
      [] algo = GaseousCompressLZ4 -> decompressLZ4(compressed)
      [] algo = GaseousCompressXZ -> decompressXZ(compressed)
      [] algo = GaseousCompressLZ4Block -> decompressLZ4Block(compressed, bits)
      [] OTHER -> Fail(ErrGaseousAlgo)

UnpackClientHelloGaseous(data0, reg, bits, entropy) ==
    IF Len(data0) < gaseousHelloHeaderSize + 1 THEN Fail(ErrGaseousTrunc)
    ELSE LET data == Slice(data0, 1, Len(data0))
             hdr == ReadHeader(data) IN
    IF hdr.Magic # GaseousHelloMagic THEN Fail(ErrGaseousMagic)
    ELSE IF hdr.Version # GaseousHelloVersion THEN Fail(ErrGaseousVersion)
    ELSE IF hdr.HelloType # GaseousHelloTypeClient THEN Fail(ErrGaseousType)
    ELSE LET end == PayloadEnd(hdr.DataLen, bits) IN
    IF end > Len(data) THEN Fail(ErrGaseousTrunc)
    ELSE IF end < gaseousHelloHeaderSize THEN Fail(PanicSliceBounds)
    ELSE LET compressed == Slice(data, gaseousHelloHeaderSize, end)
             plain == clientAlgoSwitch(compressed, hdr.Algo, bits) IN
    IF plain.err # NoErr THEN Fail(plain.err)
    ELSE IF hdr.TemplID = FingerprintTemplID
         THEN LET u == jsonUnmarshal(plain.out) IN
              IF u.err # NoErr THEN Fail(u.err)
              ELSE buildUTLSClientHello(u.params, entropy)
    ELSE LET tmpl == Lookup(reg, hdr.TemplID) IN
         IF tmpl.isNil THEN Fail(ErrGaseousTemplate)
         ELSE fillHelloTemplate(tmpl, plain.out)

\* g_client.go: the switch on hdr.Algo knows None, Flate, Gzip, Brotli, Zstd
clientAlgoSwitchGC(compressed, algo) ==
    CASE algo = GaseousCompressNone -> Ok(compressed)
      [] algo = GaseousCompressFlate -> decompressFlate(compressed)
      [] algo = GaseousCompressGzip -> decompressGzip(compressed)
      [] algo = GaseousCompressBrotli -> decompressBrotli(compressed)
      [] algo = GaseousCompressZstd -> decompressZstd(compressed)
      [] OTHER -> Fail(ErrGaseousAlgo)

\* g_client.go
UnpackClientHelloGaseousGC(data0, reg, bits, entropy) ==
    IF Len(data0) < gaseousHelloHeaderSize + 1 THEN Fail(ErrGaseousTrunc)
    ELSE LET data == Slice(data0, 1, Len(data0))
             hdr == ReadHeader(data) IN
    IF hdr.Magic # GaseousHelloMagic THEN Fail(ErrGaseousMagic)
    ELSE IF hdr.Version # GaseousHelloVersion THEN Fail(ErrGaseousVersion)
    ELSE IF hdr.HelloType # GaseousHelloTypeClient THEN Fail(ErrGaseousType)
    ELSE LET end == PayloadEnd(hdr.DataLen, bits) IN
    IF end > Len(data) THEN Fail(ErrGaseousTrunc)
    ELSE IF end < gaseousHelloHeaderSize THEN Fail(PanicSliceBounds)
    ELSE LET compressed == Slice(data, gaseousHelloHeaderSize, end) IN
    IF hdr.TemplID = FingerprintTemplID
    THEN LET plain == decompressFlate(compressed) IN
         IF plain.err # NoErr THEN Fail(plain.err)
         ELSE LET u == jsonUnmarshal(plain.out) IN
              IF u.err # NoErr THEN Fail(u.err)
              ELSE buildUTLSClientHelloGC(u.params, entropy)
    ELSE LET plain == clientAlgoSwitchGC(compressed, hdr.Algo) IN
         IF plain.err # NoErr THEN Fail(plain.err)
         ELSE LET tmpl == Lookup(reg, hdr.TemplID) IN
              IF tmpl.isNil THEN Fail(ErrGaseousTemplate)
              ELSE fillHelloTemplate(tmpl, plain.out)


(***************************** ClientHello parser **************************)
EmptyParsed ==
    [Version |-> 0, Random |-> <<>>, SessionID |-> <<>>, CipherSuites |-> <<>>,
     CompressionMethods |-> <<>>, SNI |-> <<>>, ALPN |-> <<>>, Extensions |-> <<>>]

\* m[k] = v on map[uint16][]byte
MapPut(m, k, v) == [x \in DOMAIN m \cup {k} |-> IF x = k THEN v ELSE m[x]]

\* the run-time check of an index or slice expression b[lo:hi]
InBuf(b, lo, hi) == 0 <= lo /\ lo <= hi /\ hi <= Len(b)

ParseErr(stage) == [err |-> stage, out |-> EmptyParsed]
ParsePanic == [err |-> PanicSliceBounds, out |-> EmptyParsed]
Parsed(out) == [err |-> NoErr, out |-> out]

\* a loop that reads the entry header whenever one byte is left
RECURSIVE sniLoopOneByteLeft(_, _, _, _)
sniLoopOneByteLeft(data, listLen, i, out) ==
    IF ~(i + 1 <= Len(data) /\ i + listLen <= Len(data)) THEN Parsed(out)
    ELSE IF ~InBuf(data, i, i + 3) THEN ParsePanic
    ELSE LET typ == data[i + 1]
             nameLen == Uint16(data, i + 1)
             j == i + 3
         IN IF typ = 0 /\ j + nameLen <= Len(data)
            THEN Parsed([out EXCEPT !.SNI = Slice(data, j, j + nameLen)])
            ELSE sniLoopOneByteLeft(data, listLen, j + nameLen, out)

RECURSIVE sniLoop(_, _, _, _)
sniLoop(data, listLen, i, out) ==
    IF ~(i + 3 <= Len(data) /\ i + listLen <= Len(data)) THEN Parsed(out)
    ELSE IF ~InBuf(data, i, i + 3) THEN ParsePanic
    ELSE LET typ == data[i + 1]
             nameLen == Uint16(data, i + 1)
             j == i + 3
         IN IF typ = 0 /\ j + nameLen <= Len(data)
            THEN IF ~InBuf(data, j, j + nameLen) THEN ParsePanic
                 ELSE Parsed([out EXCEPT !.SNI = Slice(data, j, j + nameLen)])
            ELSE sniLoop(data, listLen, j + nameLen, out)

parseSNI(data, out) ==
    IF Len(data) < 2 THEN Parsed(out) ELSE sniLoop(data, Uint16(data, 0), 2, out)

\* a loop that reads entries to the end of the body
RECURSIVE alpnLoopWholeBody(_, _, _, _)
alpnLoopWholeBody(data, alpnLen, li, out) ==
    IF ~(li < Len(data)) THEN Parsed(out)
    ELSE LET l == data[li + 1]
             lj == li + 1
         IN IF lj + l > Len(data) THEN Parsed(out)
            ELSE alpnLoopWholeBody(data, alpnLen, lj + l,
                                   [out EXCEPT !.ALPN = Append(@, Slice(data, lj, lj + l))])

RECURSIVE alpnLoop(_, _, _, _)
alpnLoop(data, alpnLen, li, out) ==
    IF ~(li < Len(data) /\ li - 2 < alpnLen) THEN Parsed(out)
    ELSE IF ~InBuf(data, li, li + 1) THEN ParsePanic
    ELSE LET l == data[li + 1]
             lj == li + 1
         IN IF lj + l > Len(data) THEN Parsed(out)
            ELSE IF ~InBuf(data, lj, lj + l) THEN ParsePanic
            ELSE alpnLoop(data, alpnLen, lj + l,
                          [out EXCEPT !.ALPN = Append(@, Slice(data, lj, lj + l))])

parseALPN(data, out) ==
    IF Len(data) < 2 THEN Parsed(out) ELSE alpnLoop(data, Uint16(data, 0), 2, out)

\* a loop that records what the block holds of an overrunning record
RECURSIVE extLoopKeepsOverrun(_, _, _)
extLoopKeepsOverrun(exts, ei, out) ==
    IF ~(ei + 4 <= Len(exts)) THEN Parsed(out)
    ELSE LET extType == Uint16(exts, ei)
             extL == IF ei + 4 + Uint16(exts, ei + 2) > Len(exts)
                     THEN Len(exts) - (ei + 4) ELSE Uint16(exts, ei + 2)
             ej == ei + 4
             body == Slice(exts, ej, ej + extL)
             o1 == [out EXCEPT !.Extensions = MapPut(@, extType, body)]
             o2 == IF extType = 0 THEN parseSNI(body, o1) ELSE Parsed(o1)
             o3 == IF o2.err # NoErr THEN o2
                   ELSE IF extType = 16 THEN parseALPN(body, o2.out) ELSE o2
         IN IF o3.err # NoErr THEN o3 ELSE extLoopKeepsOverrun(exts, ej + extL, o3.out)

RECURSIVE extLoop(_, _, _)
extLoop(exts, ei, out) ==
    IF ~(ei + 4 <= Len(exts)) THEN Parsed(out)
    ELSE IF ~InBuf(exts, ei, ei + 4) THEN ParsePanic
    ELSE LET extType == Uint16(exts, ei)
             extL == Uint16(exts, ei + 2)
             ej == ei + 4
         IN IF ej + extL > Len(exts) THEN Parsed(out)
            ELSE IF ~InBuf(exts, ej, ej + extL) THEN ParsePanic
            ELSE LET body == Slice(exts, ej, ej + extL)
                     o1 == [out EXCEPT !.Extensions = MapPut(@, extType, body)]
                     o2 == IF extType = 0 THEN parseSNI(body, o1) ELSE Parsed(o1)
                     o3 == IF o2.err # NoErr THEN o2
                           ELSE IF extType = 16 THEN parseALPN(body, o2.out) ELSE o2
                 IN IF o3.err # NoErr THEN o3 ELSE extLoop(exts, ej + extL, o3.out)

\* the loop over the extension block is reached with the fields read so far
AtExtensions(out, exts) == [err |-> NoErr, out |-> out, exts |-> exts]

\* the body of the handshake message, from the version to the extension
\* block: a result, or the entry to the extension loop
bodyFields(body) ==
    IF Len(body) < 2 THEN ParseErr("truncated version")
    ELSE IF Len(body) - 2 < 32 THEN ParseErr("truncated random")
    ELSE IF ~InBuf(body, 2, 34) THEN ParsePanic
    ELSE IF Len(body) - 34 < 1 THEN ParseErr("truncated sessionid len")
    ELSE LET sidLen == body[35]
             i1 == 35 IN
    IF Len(body) - i1 < sidLen THEN ParseErr("truncated sessionid")
    ELSE IF ~InBuf(body, i1, i1 + sidLen) THEN ParsePanic
    ELSE LET i2 == i1 + sidLen IN
    IF Len(body) - i2 < 2 THEN ParseErr("truncated ciphersuites len")
    ELSE LET csLen == Uint16(body, i2)
             i3 == i2 + 2 IN
    IF Len(body) - i3 < csLen \/ csLen % 2 # 0 THEN ParseErr("truncated/invalid ciphersuites")
    ELSE IF ~InBuf(body, i3, i3 + 2 * (csLen \div 2)) THEN ParsePanic
    ELSE LET i4 == i3 + csLen IN
    IF Len(body) - i4 < 1 THEN ParseErr("truncated compression methods len")
    ELSE LET compLen == body[i4 + 1]
             i5 == i4 + 1 IN
    IF Len(body) - i5 < compLen THEN ParseErr("truncated compression methods")
    ELSE IF ~InBuf(body, i5, i5 + compLen) THEN ParsePanic
    ELSE LET i6 == i5 + compLen
             out == [EmptyParsed EXCEPT
                        !.Version = Uint16(body, 0),
                        !.Random = Slice(body, 2, 34),
                        !.SessionID = Slice(body, i1, i1 + sidLen),
                        !.CipherSuites = [j \in 1..(csLen \div 2) |-> Uint16(body, i3 + 2 * (j - 1))],
                        !.CompressionMethods = Slice(body, i5, i5 + compLen)] IN
    IF i6 = Len(body) THEN Parsed(out)
    ELSE IF Len(body) - i6 < 2 THEN ParseErr("truncated extensions len")
    ELSE LET extLen == Uint16(body, i6)
             i7 == i6 + 2 IN
    IF Len(body) - i7 < extLen THEN ParseErr("truncated extensions body")
    ELSE IF ~InBuf(body, i7, i7 + extLen) THEN ParsePanic
    ELSE AtExtensions(out, Slice(body, i7, i7 + extLen))

\* a handshake layer that reads the body of any handshake type
handshakeFieldsAnyType(hs) ==
    IF Len(hs) < 4 THEN ParseErr("truncated handshake")
    ELSE LET hsLen == hs[2] * 65536 + hs[3] * 256 + hs[4] IN
    IF Len(hs) - 4 < hsLen THEN ParseErr("truncated handshake body")
    ELSE IF ~InBuf(hs, 4, 4 + hsLen) THEN ParsePanic
    ELSE bodyFields(Slice(hs, 4, 4 + hsLen))

\* from hs := data[offset:] on
handshakeFields(hs) ==
    IF Len(hs) < 4 THEN ParseErr("truncated handshake")
    ELSE IF hs[1] # 1 THEN ParseErr("not clienthello")
    ELSE LET hsLen == hs[2] * 65536 + hs[3] * 256 + hs[4] IN
    IF Len(hs) - 4 < hsLen THEN ParseErr("truncated handshake body")
    ELSE IF ~InBuf(hs, 4, 4 + hsLen) THEN ParsePanic
    ELSE bodyFields(Slice(hs, 4, 4 + hsLen))

\* a record layer that takes a record whose length does not fit for a
\* handshake message
helloFieldsLenientRecord(data) ==
    IF Len(data) < 9 THEN ParseErr("too short")
    ELSE LET isRecord == data[1] = 22 /\ Len(data) > 5 /\ data[2] = 3
                           /\ data[3] >= 1 /\ data[3] <= 4
                           /\ Len(data) >= 5 + Uint16(data, 3)
         IN handshakeFields(Slice(data, IF isRecord THEN 5 ELSE 0, Len(data)))

\* from the record layer on
helloFields(data) ==
    IF Len(data) < 9 THEN ParseErr("too short")
    ELSE LET isRecord == data[1] = 22 /\ Len(data) > 5 /\ data[2] = 3
                           /\ data[3] >= 1 /\ data[3] <= 4 IN
    IF isRecord /\ Len(data) < 5 + Uint16(data, 3) THEN ParseErr("truncated TLS record")
    ELSE handshakeFields(Slice(data, IF isRecord THEN 5 ELSE 0, Len(data)))

\* the extension loop, run from its entry to its end
runExtLoop(p) == IF "exts" \in DOMAIN p THEN extLoop(p.exts, 0, p.out) ELSE p

\* [err, out]: err names the stage; PanicSliceBounds is a failed run-time check
parseBody(body) == runExtLoop(bodyFields(body))
parseHandshake(hs) == runExtLoop(handshakeFields(hs))
parseClientHello(data) == runExtLoop(helloFields(data))

(***************************** fingerprint matcher *************************)
MatchThreshold == 10

\* the score of one spec against the parsed hello
specScore(parsed, spec) ==
    LET cs == IF Len(parsed.CipherSuites) > 0 /\ Len(spec.CipherSuites) > 0
              THEN 4 * Cardinality({i \in 1..Len(parsed.CipherSuites) :
                         i <= Len(spec.CipherSuites)
                         /\ parsed.CipherSuites[i] = spec.CipherSuites[i]})
              ELSE 0
        comp == IF Len(parsed.CompressionMethods) > 0 /\ Len(spec.CompressionMethods) > 0
                   /\ parsed.CompressionMethods = spec.CompressionMethods
                THEN 8 ELSE 0
        alpn == IF Len(parsed.ALPN) > 0
                THEN 4 * Cardinality({t \in UNION {{<<k, i, j>> : i \in 1..Len(parsed.ALPN),
                                                        j \in 1..Len(spec.Extensions[k].AlpnProtocols)} :
                                               k \in {x \in 1..Len(spec.Extensions) :
                                                        spec.Extensions[x].kind = "ALPN"}} :
                         parsed.ALPN[t[2]] = spec.Extensions[t[1]].AlpnProtocols[t[3]]})
                ELSE 0
        sni == IF parsed.SNI # <<>> /\ \E k \in 1..Len(spec.Extensions) : spec.Extensions[k].kind = "SNI"
               THEN 3 ELSE 0
    IN cs + comp + alpn + sni

NoMatch == [spec |-> <<>>, params |-> ZeroParams]

\* the loop over allUTLSIDs from index k on; best = [score, match, params]
RECURSIVE matchLoop(_, _, _)
matchLoop(parsed, k, best) ==
    IF k > Len(allUTLSIDs) THEN best
    ELSE LET s == UTLSIdToSpec(allUTLSIDs[k]) IN
         IF s.err # NoErr THEN matchLoop(parsed, k + 1, best)
         ELSE LET step(score) ==
                      IF score > best.score
                      THEN [score |-> score, match |-> allUTLSIDs[k],
                            params |-> [SpecType |-> allUTLSIDs[k], SNI |-> parsed.SNI,
                                        ALPN |-> parsed.ALPN, Random |-> parsed.Random,
                                        SessionID |-> parsed.SessionID]]
                      ELSE best
              IN CHOOSE r \in {matchLoop(parsed, k + 1, b) : b \in
                     {step(score) : score \in {specScore(parsed, s.spec)}}} : TRUE

\* [spec, params]; spec = <<>> is the empty string of "no match"
matchUTLSClientHello(clientHelloBytes) ==
    LET verdict(best) ==
            IF best.score >= MatchThreshold /\ best.match # <<>>
            THEN [spec |-> best.match, params |-> best.params]
            ELSE NoMatch
        scan(p) ==
            IF p.err # NoErr THEN NoMatch
            ELSE CHOOSE r \in {verdict(best) : best \in
                      {matchLoop(p.out, 1,
                                 [score |-> 0, match |-> <<>>, params |-> ZeroParams])}} : TRUE
    \* parsed is a local: computed once, then read
    IN CHOOSE r \in {scan(p) : p \in {parseClientHello(clientHelloBytes)}} : TRUE

(********************* fingerprint matcher of g_client.go ******************)
(* The older matcher decodes the hello with the engine's own Unmarshal and *)
(* takes the SNI and the ALPN list from the connection.  Unmarshal is      *)
(* external: it stands here as the strict decoder of the handshake message *)
(* (four header bytes skipped, session id of at most 32 bytes, extension   *)
(* block consumed exactly), giving the extension types in wire order.      *)
(***************************************************************************)
RECURSIVE extTypeList(_, _, _)
extTypeList(exts, ei, acc) ==
    IF ei = Len(exts) THEN [ok |-> TRUE, types |-> acc]
    ELSE IF ei + 4 > Len(exts) THEN [ok |-> FALSE, types |-> <<>>]
    ELSE LET extL == Uint16(exts, ei + 2) IN
         IF ei + 4 + extL > Len(exts) THEN [ok |-> FALSE, types |-> <<>>]
         ELSE extTypeList(exts, ei + 4 + extL, Append(acc, Uint16(exts, ei)))

Unmarshal(data) ==
    LET bad == [ok |-> FALSE, Random |-> <<>>, SessionId |-> <<>>, CipherSuites |-> <<>>,
                CompressionMethods |-> <<>>, Extensions |-> <<>>] IN
    IF Len(data) < 4 THEN bad
    ELSE LET body == Slice(data, 4, Len(data))
             p == parseBody(body) IN
    IF p.err # NoErr \/ Len(p.out.SessionID) > 32 THEN bad
    ELSE LET i6 == 35 + Len(p.out.SessionID) + 2 + 2 * Len(p.out.CipherSuites)
                     + 1 + Len(p.out.CompressionMethods)
             msg == [ok |-> TRUE, Random |-> p.out.Random, SessionId |-> p.out.SessionID,
                     CipherSuites |-> p.out.CipherSuites,
                     CompressionMethods |-> p.out.CompressionMethods, Extensions |-> <<>>] IN
    IF i6 = Len(body) THEN msg
    ELSE IF i6 + 2 + Uint16(body, i6) # Len(body) THEN bad
    ELSE LET t == extTypeList(Slice(body, i6 + 2, Len(body)), 0, <<>>) IN
         IF t.ok THEN [msg EXCEPT !.Extensions = t.types] ELSE bad

\* sort.Slice in ascending order: element i goes to the place that counts the
\* elements before it
SortAsc(q) ==
    LET place(i) == 1 + Cardinality({j \in 1..Len(q) : q[j] < q[i] \/ (q[j] = q[i] /\ j < i)})
    IN [k \in 1..Len(q) |-> q[CHOOSE i \in 1..Len(q) : place(i) = k]]

\* the two-index walk over the sorted extension types
RECURSIVE commonExt(_, _, _, _)
commonExt(a, b, i, j) ==
    IF ~(i < Len(a) /\ j < Len(b)) THEN 0
    ELSE IF a[i + 1] = b[j + 1] THEN 1 + commonExt(a, b, i + 1, j + 1)
    ELSE IF a[i + 1] < b[j + 1] THEN commonExt(a, b, i + 1, j)
    ELSE commonExt(a, b, i, j + 1)

MatchThresholdGC == 50

compareClientHelloSpec(msg, spec, sni, alpn) ==
    LET cs == IF Len(msg.CipherSuites) > 0 /\ Len(spec.CipherSuites) > 0
              THEN 3 * Cardinality({c \in (1..Len(msg.CipherSuites)) \X (1..Len(spec.CipherSuites)) :
                                       msg.CipherSuites[c[1]] = spec.CipherSuites[c[2]]})
              ELSE 0
        comp == IF Len(msg.CompressionMethods) > 0 /\ Len(spec.CompressionMethods) > 0
                   /\ msg.CompressionMethods = spec.CompressionMethods
                THEN 8 ELSE 0
        specALPN == Concat([k \in 1..Len(spec.Extensions) |->
                              IF spec.Extensions[k].kind = "ALPN"
                              THEN spec.Extensions[k].AlpnProtocols ELSE <<>>])
        al == IF Len(alpn) > 0 /\ Len(spec.Extensions) > 0
              THEN 4 * Cardinality({c \in (1..Len(alpn)) \X (1..Len(specALPN)) :
                                       alpn[c[1]] = specALPN[c[2]]})
              ELSE 0
        sn == IF sni # <<>>
              THEN 10 * Cardinality({k \in 1..Len(spec.Extensions) :
                                        spec.Extensions[k].kind = "SNI"
                                        /\ spec.Extensions[k].ServerName = sni})
              ELSE 0
        specExts == [k \in 1..Len(spec.Extensions) |-> spec.Extensions[k].Type]
        ex == 2 * commonExt(SortAsc(msg.Extensions), SortAsc(specExts), 0, 0)
        rnd == IF Len(msg.Random) = 32 THEN 2 ELSE 0
        sid == IF Len(msg.SessionId) = 32 \/ Len(msg.SessionId) = 0 THEN 2 ELSE 0
    IN cs + comp + al + sn + ex + rnd + sid

RECURSIVE matchLoopGC(_, _, _, _, _)
matchLoopGC(msg, sni, alpn, k, best) ==
    IF k > Len(allUTLSIDs) THEN best
    ELSE LET s == UTLSIdToSpec(allUTLSIDs[k]) IN
         IF s.err # NoErr THEN matchLoopGC(msg, sni, alpn, k + 1, best)
         ELSE LET step(score) ==
                      IF score > best.score
                      THEN [score |-> score, match |-> allUTLSIDs[k],
                            params |-> [SpecType |-> allUTLSIDs[k], SNI |-> sni, ALPN |-> alpn,
                                        Random |-> msg.Random, SessionID |-> msg.SessionId]]
                      ELSE best
              IN CHOOSE r \in {matchLoopGC(msg, sni, alpn, k + 1, b) : b \in
                     {step(score) : score \in {compareClientHelloSpec(msg, s.spec, sni, alpn)}}} : TRUE

matchUTLSClientHelloGC(clientHelloBytes, sni, alpn) ==
    LET verdict(best) ==
            IF best.score >= MatchThresholdGC /\ best.match # <<>>
            THEN [spec |-> best.match, params |-> best.params]
            ELSE NoMatch
        scan(chMsg) ==
            IF ~chMsg.ok THEN NoMatch
            ELSE CHOOSE r \in {verdict(best) : best \in
                      {matchLoopGC(chMsg, sni, alpn, 1,
                                   [score |-> 0, match |-> <<>>, params |-> ZeroParams])}} : TRUE
    \* chMsg is a local: decoded once, then read
    IN CHOOSE r \in {scan(chMsg) : chMsg \in {Unmarshal(clientHelloBytes)}} : TRUE

(********************************* packing *********************************)
(* A codec's compress call fails when the environment makes it fail        *)
(* (failing is the set of algorithms whose call returns an error).         *)
(***************************************************************************)
compressLZ4Block(data) == PutUint32(Len(data)) \o codecCompress(GaseousCompressLZ4Block, data)

compress(algo, data, failing) ==
    IF algo \in failing THEN Fail(ErrCodec)
    ELSE IF algo = GaseousCompressLZ4Block THEN Ok(compressLZ4Block(data))
    ELSE Ok(codecCompress(algo, data))

compressFuncs ==
    <<GaseousCompressFlate, GaseousCompressGzip, GaseousCompressBrotli, GaseousCompressZstd,
      GaseousCompressLZ4, GaseousCompressXZ, GaseousCompressLZ4Block>>

\* header of pack: magic, version, algo, type, templateId, dataLen
\* variant: the algo and helloType bytes written in each other's place
packHeaderTypeBeforeAlgo(algo, templID, comp) ==
    GaseousHelloMagic \o <<GaseousHelloVersion, GaseousHelloTypeClient, algo>>
      \o PutUint16(templID) \o PutUint32(Len(comp))

packHeader(algo, templID, comp) ==
    GaseousHelloMagic \o <<GaseousHelloVersion, algo, GaseousHelloTypeClient>>
      \o PutUint16(templID) \o PutUint32(Len(comp))

\* a loop that returns the first success but still calls the later compressors
RECURSIVE packLoopKeepsTrying(_, _, _, _)
packLoopKeepsTrying(plain, templID, failing, k) ==
    IF k > Len(compressFuncs)
    THEN [err |-> ErrAllCompression, out |-> <<>>, tried |-> <<>>]
    ELSE LET comp == compress(compressFuncs[k], plain, failing)
             rest == packLoopKeepsTrying(plain, templID, failing, k + 1)
         IN IF comp.err = NoErr
            THEN [err |-> NoErr,
                  out |-> <<recordTypeGaseousHello>>
                            \o packHeader(compressFuncs[k], templID, comp.out) \o comp.out,
                  tried |-> <<compressFuncs[k]>> \o rest.tried]
            ELSE [rest EXCEPT !.tried = <<compressFuncs[k]>> \o @]

\* the loop over compressFuncs from index k on; tried lists the cfn.fn calls made
RECURSIVE packLoop(_, _, _, _)
packLoop(plain, templID, failing, k) ==
    IF k > Len(compressFuncs)
    THEN [err |-> ErrAllCompression, out |-> <<>>, tried |-> <<>>]
    ELSE LET comp == compress(compressFuncs[k], plain, failing) IN
         IF comp.err = NoErr
         THEN [err |-> NoErr,
               out |-> <<recordTypeGaseousHello>>
                         \o packHeader(compressFuncs[k], templID, comp.out) \o comp.out,
               tried |-> <<compressFuncs[k]>>]
         ELSE [packLoop(plain, templID, failing, k + 1) EXCEPT !.tried = <<compressFuncs[k]>> \o @]

\* variant: the matcher's verdict ignored, every hello packed raw
PackClientHelloGaseousAlwaysRaw(clientHelloBytes, failing) ==
    packLoop(clientHelloBytes, 0, failing, 1)

PackClientHelloGaseous(clientHelloBytes, failing) ==
    LET pack(m) ==
            IF m.spec # <<>>
            THEN packLoop(jsonMarshal(m.params), FingerprintTemplID, failing, 1)
            ELSE packLoop(clientHelloBytes, 0, failing, 1)
    IN CHOOSE r \in {pack(m) : m \in {matchUTLSClientHello(clientHelloBytes)}} : TRUE

\* g_client.go: one compressor per mode, its error returned as it is
PackClientHelloGaseousGC(clientHelloBytes, sni, alpn, failing) ==
    LET pack(m) ==
            LET algo == IF m.spec # <<>> THEN GaseousCompressFlate ELSE GaseousCompressBrotli
                templID == IF m.spec # <<>> THEN FingerprintTemplID ELSE 0
                compressed == compress(algo, IF m.spec # <<>> THEN jsonMarshal(m.params)
                                             ELSE clientHelloBytes, failing)
            IN IF compressed.err # NoErr
               THEN [err |-> compressed.err, out |-> <<>>, tried |-> <<algo>>]
               ELSE [err |-> NoErr,
                     out |-> <<recordTypeGaseousHello>>
                               \o packHeader(algo, templID, compressed.out) \o compressed.out,
                     tried |-> <<algo>>]
    IN CHOOSE r \in {pack(m) : m \in {matchUTLSClientHelloGC(clientHelloBytes, sni, alpn)}} : TRUE

(******************************* input sets ********************************)
TemplateIds == {0, 5}
Skeletons == {Fill(170, n) : n \in 0..MaxSkeleton}
TemplateValues == {NilTemplate} \cup {Template(sk) : sk \in Skeletons}

\* what the fingerprint engine draws for the random and the session id
EngineEntropy ==
    {[random |-> Fill(238, 32), sessionID |-> <<>>],
     [random |-> Fill(17, 32), sessionID |-> <<17>>]}

HelloRandom == Fill(170, 32)

HelloOf(cs, comp, exts) ==
    MarshalHello([Version |-> 771, Random |-> HelloRandom, SessionID |-> <<7>>,
                  CipherSuites |-> cs, CompressionMethods |-> comp, Extensions |-> exts])

RecordWrap(h) == <<22, 3, 1>> \o PutUint16(Len(h)) \o h

HelloExtLists ==
    {<<>>, <<ExtSNI(<<97>>)>>, <<ExtSNI(<<97, 255>>), ExtALPN(<<ProtoH2>>)>>,
     <<ExtALPN(<<ProtoH2, ProtoH1>>)>>}

BuiltHellos ==
    {HelloOf(cs, <<0>>, exts) :
        cs \in {<<4865>>, <<4865, 4866>>, <<49195>>, <<9>>}, exts \in HelloExtLists}
      \cup {HelloOf(<<4865>>, <<1>>, <<>>), HelloOf(<<>>, <<0>>, <<>>), HelloOf(<<9>>, <<1>>, <<>>)}

\* hellos whose packing is tried against every failing prefix of the chain
ChainHellos ==
    {HelloOf(<<4865>>, <<0>>, <<ExtSNI(<<97>>)>>), HelloOf(<<9>>, <<1>>, <<>>), <<>>, <<1, 2>>}

PackHellos ==
    BuiltHellos \cup ChainHellos
      \cup {RecordWrap(HelloOf(<<4865>>, <<0>>, <<>>)), RecordWrap(HelloOf(<<9>>, <<1>>, <<>>))}
      \cup {Fill(0, 219), <<2>> \o Tail(HelloOf(<<4865>>, <<0>>, <<>>))}

\* a hello of the largest spec, and the connection's server name and protocols
EdgeHello ==
    HelloOf(EdgeSuites, <<0>>, <<ExtSNI(<<97>>), ExtOther(23, <<>>), ExtALPN(<<ProtoH2, ProtoH1>>)>>)
ConnServerNames == {<<>>, <<97>>}
ConnNextProtos == {<<>>, <<ProtoH2, ProtoH1>>}

\* <<hello, c.serverName, c.config.NextProtos, failing compressors>>
PackCallsGC ==
    {EdgeHello, HelloOf(<<4865>>, <<0>>, <<ExtSNI(<<97>>)>>), Fill(0, 219), <<1, 2>>}
      \X ConnServerNames \X ConnNextProtos
      \X {{}, {GaseousCompressFlate}, {GaseousCompressBrotli}}

\* the compress calls the environment lets fail
FailSets ==
    {{compressFuncs[i] : i \in 1..n} : n \in 0..Len(compressFuncs)} \cup {{GaseousCompressBrotli}}

PackCalls ==
    (ChainHellos \X FailSets) \cup (PackHellos \X {{}, {GaseousCompressFlate, GaseousCompressGzip}})

KnownParams ==
    [SpecType |-> IdFirefox, SNI |-> <<97>>, ALPN |-> <<ProtoH2>>,
     Random |-> HelloRandom, SessionID |-> <<7>>]

ParamPlains ==
    {jsonMarshal(KnownParams),
     jsonMarshal([KnownParams EXCEPT !.SpecType = <<102, 49>>]),     \* "f1"
     jsonMarshal([KnownParams EXCEPT !.SpecType = <<88>>]),          \* "X"
     jsonMarshal([KnownParams EXCEPT !.SpecType = IdChrome]),
     jsonMarshal([ZeroParams EXCEPT !.SpecType = IdChrome])}

Plains == {Fill(1, n) : n \in 0..MaxPlain} \cup ParamPlains

HeaderAlgos == {GaseousCompressNone, GaseousCompressFlate, GaseousCompressLZ4,
                GaseousCompressLZ4Block, 99}

\* a payload a sender using algo would put in the frame
Encode(algo, plain) ==
    IF algo = GaseousCompressLZ4Block THEN compressLZ4Block(plain)
    ELSE IF algo \in compressFuncs[1]..compressFuncs[6] THEN codecCompress(algo, plain)
    ELSE plain

Frame(magic, ver, algo, typ, tid, dataLen, payload) ==
    magic \o <<ver, algo, typ>> \o PutUint16(tid) \o dataLen \o payload

\* frames whose magic, version or type is off
HeaderFrames ==
    {Frame(m, v, GaseousCompressNone, t, 0, PutUint32(1), <<1>>) :
        m \in {GaseousHelloMagic, <<71, 0>>, <<0, 83>>}, v \in {1, 2}, t \in {1, 2, 3}}

\* well-formed frames of type t: every header algo, every mode, payloads in the
\* header's format and (for the raw and unknown algos) in Flate format
BodyFrames(t) ==
    UNION {{Frame(GaseousHelloMagic, GaseousHelloVersion, a, t, tid, PutUint32(Len(pl)), pl) :
              tid \in {0, 5, FingerprintTemplID},
              pl \in {Encode(b, p) : b \in {a} \cup (IF a \in {GaseousCompressNone, 99}
                                                      THEN {GaseousCompressFlate} ELSE {}),
                                     p \in Plains}} :
           a \in HeaderAlgos}

\* frames whose dataLen is not the payload's length
LenFrames(t) ==
    {Frame(GaseousHelloMagic, GaseousHelloVersion, GaseousCompressNone, t, tid, dl, <<1, 1>>) :
        tid \in {0, 5},
        dl \in {PutUint32(3), PutUint32(1), <<255, 255, 255, 255>>, <<127, 255, 255, 255>>,
                <<128, 0, 0, 0>>}}

\* every prefix of a well-formed frame
TruncFrames(t) ==
    {SubSeq(Frame(GaseousHelloMagic, GaseousHelloVersion, GaseousCompressNone, t, 5,
                  PutUint32(2), <<1, 1>>), 1, n) : n \in 0..13}

FramesOf(t) == HeaderFrames \cup BodyFrames(t) \cup LenFrames(t) \cup TruncFrames(t)

Marked(f) == <<recordTypeGaseousHello>> \o f

\* what PackClientHelloGaseous puts on the wire
PackedFrames ==
    {PackClientHelloGaseous(h, f).out : h \in ChainHellos, f \in FailSets \ {1..7}}

PackedFramesGC ==
    {PackClientHelloGaseousGC(c[1], c[2], c[3], {}).out : c \in PackCallsGC}

\* the server side reads the header at byte 0; a few inputs carry the marker
ServerInputs ==
    FramesOf(GaseousHelloTypeServer)
      \cup {Marked(f) : f \in LenFrames(GaseousHelloTypeServer)}

\* the client side is handed the record with its marker; a few inputs lack it
ClientInputs ==
    {Marked(f) : f \in FramesOf(GaseousHelloTypeClient)}
      \cup LenFrames(GaseousHelloTypeClient) \cup PackedFrames \cup PackedFramesGC

\* the second entropy is drawn for the fingerprint frames only: no other
\* result depends on it
ClientCalls ==
    {<<d, e>> \in ClientInputs \X EngineEntropy :
        \/ e.sessionID = <<>>
        \/ Len(d) >= 8 /\ Uint16(d, 6) = FingerprintTemplID}

(**************************** parser inputs *********************************)
\* a hello with a server name and a protocol list, and its body
ParseHello == HelloOf(<<4865>>, <<0>>, <<ExtSNI(<<97>>), ExtALPN(<<ProtoH2>>)>>)
ParseBody == Slice(ParseHello, 4, Len(ParseHello))
\* the body up to the extension block, and the extension records
ParseFixedLen == Len(HelloOf(<<4865>>, <<0>>, <<>>)) - 4
ParseExts == Slice(ParseBody, ParseFixedLen + 2, Len(ParseBody))

\* a handshake message of the given body; zero bytes follow a body of less
\* than five bytes, so that the message has the nine bytes the parser wants
Handshake(type, body) ==
    <<type>> \o PutUint24(Len(body)) \o body
      \o (IF Len(body) < 5 THEN Fill(0, 5 - Len(body)) ELSE <<>>)

\* the body cut after n bytes
BodyCuts == {Handshake(1, Slice(ParseBody, 0, n)) : n \in 0..Len(ParseBody)}

\* the extension block declared and cut after m bytes
ExtCutBody(m) == Slice(ParseBody, 0, ParseFixedLen) \o PutUint16(m) \o Slice(ParseExts, 0, m)
ExtCuts == {Handshake(1, ExtCutBody(m)) : m \in 0..Len(ParseExts)}

\* server-name and protocol-list extensions with damaged bodies, and
\* server-name lists of two entries
DamagedExts ==
    {<<ExtOther(0, b)>> : b \in {<<>>, <<0>>, <<0, 1, 0>>, <<0, 4, 0, 0>>, <<0, 3, 0, 0, 9, 97>>,
                                 <<0, 200, 0, 0, 1, 97>>, <<0, 8, 1, 0, 1, 120, 0, 0, 1, 121>>,
                                 <<0, 8, 0, 0, 1, 120, 0, 0, 1, 121>>,
                                 <<0, 8, 0, 0, 1, 120, 1, 0, 1, 121>>}}
      \cup {<<ExtOther(16, b)>> : b \in {<<>>, <<0>>, <<0, 3, 2, 104>>, <<0, 0, 2, 104, 50>>,
                                        <<0, 3, 2, 104, 50, 2, 104, 49>>,
                                        <<0, 6, 2, 104, 50, 2, 104, 49>>,
                                        <<0, 1, 2, 104, 50>>, <<0, 2, 0, 0>>}}
      \cup {<<ExtOther(23, <<>>), ExtSNI(<<97>>), ExtSNI(<<98>>)>>}

\* the hello with an odd cipher-suite length
OddSuites ==
    Handshake(1, Slice(ParseBody, 0, 36) \o <<0, 3, 19, 1, 0>> \o Slice(ParseBody, 40, ParseFixedLen))

\* record headers in front of the hello: fitting, too long, and not a record
RecordHeads ==
    {<<22, 3, v>> \o PutUint16(Len(ParseHello) + d) : v \in {0, 1, 4, 5}, d \in {0, 1}}
      \cup {<<22, 2, 1>> \o PutUint16(Len(ParseHello)), <<23, 3, 1>> \o PutUint16(Len(ParseHello))}

\* a whole extension, then a server-name or protocol-list record that
\* declares one byte more than the block holds
OverrunExts ==
    {Handshake(1, Slice(ParseBody, 0, ParseFixedLen) \o PutUint16(Len(blk)) \o blk) :
        blk \in {<<0, 23, 0, 0>> \o <<0, 0, 0, 7, 0, 4, 0, 0, 1, 97>>,
                 <<0, 23, 0, 0>> \o <<0, 16, 0, 6, 0, 3, 2, 104, 50>>}}

\* the hello with a session id of n bytes
SessionIdHello(n) ==
    Handshake(1, Slice(ParseBody, 0, 34) \o <<n>> \o Fill(7, n) \o Slice(ParseBody, 36, Len(ParseBody)))

ParseInputs ==
    BodyCuts \cup ExtCuts \cup OverrunExts \cup {OddSuites}
      \cup {SessionIdHello(n) : n \in {0, 32, 33, 255}}
      \cup {HelloOf(<<4865>>, <<0>>, exts) : exts \in DamagedExts}
      \cup {h \o ParseHello : h \in RecordHeads}
      \cup {h \o <<2>> \o Tail(ParseHello) : h \in {<<>>, <<22, 3, 1>> \o PutUint16(Len(ParseHello))}}
      \cup {Handshake(t, ParseBody) : t \in {0, 1, 2, 22}}
      \cup {<<1>> \o PutUint24(Len(ParseBody) + 1) \o ParseBody}
      \cup {<<>>, Fill(1, 8), <<22, 3, 1, 0, 0, 1, 0, 0>>, <<22, 3, 1, 0, 4, 1, 0, 0, 0>>}
      \cup PackHellos

\* LZ4Block payloads: a declared length, then a block of some plain, nothing,
\* or bytes that are no block; and payloads shorter than the length prefix
LZ4Blocks ==
    {codecCompress(GaseousCompressLZ4Block, Fill(1, k)) : k \in 0..MaxPlain} \cup {<<>>, <<9, 9>>}
LZ4BlockInputs ==
    {PutUint32(n) \o blk : n \in 0..(MaxPlain + 1), blk \in LZ4Blocks}
      \cup {hi \o <<0, 0>> \o blk : hi \in {<<0, 1>>, <<127, 255>>, <<128, 0>>, <<255, 255>>},
                                   blk \in LZ4Blocks}
      \cup {<<>>, <<0>>, <<0, 0, 0>>}

\* the hellos given to the matcher, and <<hello, sni, alpn>> of the older one
\* with them a protocol list that names a protocol twice
MatchInputs ==
    PackHellos \cup {ParseHello, EdgeHello}
      \cup {HelloOf(<<4865, 4866>>, <<0>>, <<ExtALPN(<<ProtoH2, ProtoH2>>)>>)}
MatchCallsGC ==
    {<<c[1], c[2], c[3]>> : c \in PackCallsGC} \cup {<<EdgeHello, <<97>>, <<ProtoH2, ProtoH2>>>>}

(******************************* the program *******************************)
NoCall == [op |-> "none", data |-> <<>>, id |-> 0, tmpl |-> NilTemplate,
           entropy |-> [random |-> <<>>, sessionID |-> <<>>], failing |-> {},
           sni |-> <<>>, alpn |-> <<>>]
NoRet == [helloType |-> 0, err |-> NoErr, out |-> <<>>]

Returned(r) == [helloType |-> 0, err |-> r.err, out |-> r.out]

Init ==
    /\ gaseousTemplates = <<>>        \* make(map[uint16]*HelloTemplate)
    /\ intBits \in {32, 64}
    /\ gaseousDecompressAlgo = GaseousCompressFlate
    /\ pc = "idle"
    /\ call = NoCall
    /\ ret = NoRet
    /\ attempts = <<>>

\* variant: registering replaces the whole map by the one new entry
RegisterGaseousTemplateReset(id, tmpl) ==
    /\ pc = "idle"
    /\ gaseousTemplates' = MapPut(<<>>, id, tmpl)
    /\ pc' = "done"
    /\ call' = [NoCall EXCEPT !.op = "RegisterGaseousTemplate", !.id = id, !.tmpl = tmpl]
    /\ ret' = NoRet
    /\ attempts' = <<>>
    /\ UNCHANGED <<intBits, gaseousDecompressAlgo, gaseousDecompressAlgo>>

RegisterGaseousTemplate(id, tmpl) ==
    /\ pc = "idle"
    /\ gaseousTemplates' = MapPut(gaseousTemplates, id, tmpl)
    /\ pc' = "done"
    /\ call' = [NoCall EXCEPT !.op = "RegisterGaseousTemplate", !.id = id, !.tmpl = tmpl]
    /\ ret' = NoRet
    /\ attempts' = <<>>
    /\ UNCHANGED <<intBits, gaseousDecompressAlgo, gaseousDecompressAlgo>>

CallRegisterGaseousTemplate ==
    \E id \in TemplateIds, tmpl \in TemplateValues : RegisterGaseousTemplate(id, tmpl)

\* the defaults a caller sets
DefaultAlgos == {GaseousCompressNone, GaseousCompressFlate}

SetGaseousDecompressAlgo(algo) ==
    /\ pc = "idle"
    /\ gaseousDecompressAlgo' = algo
    /\ pc' = "done"
    /\ call' = [NoCall EXCEPT !.op = "SetGaseousDecompressAlgo", !.id = algo]
    /\ ret' = NoRet
    /\ attempts' = <<>>
    /\ UNCHANGED <<gaseousTemplates, intBits>>

CallSetGaseousDecompressAlgo ==
    \E algo \in DefaultAlgos : SetGaseousDecompressAlgo(algo)

CallUnpackServerHelloGaseous ==
    \E data \in ServerInputs :
        /\ pc = "idle"
        /\ pc' = "done"
        /\ call' = [NoCall EXCEPT !.op = "UnpackServerHelloGaseous", !.data = data]
        /\ ret' = Returned(UnpackServerHelloGaseous(data, gaseousTemplates, intBits))
        /\ attempts' = <<>>
        /\ UNCHANGED <<gaseousTemplates, intBits, gaseousDecompressAlgo>>

CallUnpackAnyGaseousHello ==
    \E data \in ServerInputs :
        /\ pc = "idle"
        /\ pc' = "done"
        /\ call' = [NoCall EXCEPT !.op = "UnpackAnyGaseousHello", !.data = data]
        /\ ret' = UnpackAnyGaseousHello(data, gaseousTemplates, intBits)
        /\ attempts' = <<>>
        /\ UNCHANGED <<gaseousTemplates, intBits, gaseousDecompressAlgo>>

CallUnpackClientHelloGaseous ==
    \E c \in ClientCalls : LET data == c[1] entropy == c[2] IN
        /\ pc = "idle"
        /\ pc' = "done"
        /\ call' = [NoCall EXCEPT !.op = "UnpackClientHelloGaseous", !.data = data,
                                  !.entropy = entropy]
        /\ ret' = Returned(UnpackClientHelloGaseous(data, gaseousTemplates, intBits, entropy))
        /\ attempts' = <<>>
        /\ UNCHANGED <<gaseousTemplates, intBits, gaseousDecompressAlgo>>

CallUnpackClientHelloGaseousGC ==
    \E c \in ClientCalls : LET data == c[1] entropy == c[2] IN
        /\ pc = "idle"
        /\ pc' = "done"
        /\ call' = [NoCall EXCEPT !.op = "UnpackClientHelloGaseousGC", !.data = data,
                                  !.entropy = entropy]
        /\ ret' = Returned(UnpackClientHelloGaseousGC(data, gaseousTemplates, intBits, entropy))
        /\ attempts' = <<>>
        /\ UNCHANGED <<gaseousTemplates, intBits, gaseousDecompressAlgo>>

CallPackClientHelloGaseous ==
    \E c \in PackCalls : LET hello == c[1] failing == c[2] IN
        /\ pc = "idle"
        /\ pc' = "done"
        /\ call' = [NoCall EXCEPT !.op = "PackClientHelloGaseous", !.data = hello,
                                  !.failing = failing]
        /\ ret' = Returned(PackClientHelloGaseous(hello, failing))
        /\ attempts' = PackClientHelloGaseous(hello, failing).tried
        /\ UNCHANGED <<gaseousTemplates, intBits, gaseousDecompressAlgo>>

CallPackClientHelloGaseousGC ==
    \E c \in PackCallsGC : LET hello == c[1] sni == c[2] alpn == c[3] failing == c[4] IN
        /\ pc = "idle"
        /\ pc' = "done"
        /\ call' = [NoCall EXCEPT !.op = "PackClientHelloGaseousGC", !.data = hello,
                                  !.sni = sni, !.alpn = alpn, !.failing = failing]
        /\ ret' = Returned(PackClientHelloGaseousGC(hello, sni, alpn, failing))
        /\ attempts' = PackClientHelloGaseousGC(hello, sni, alpn, failing).tried
        /\ UNCHANGED <<gaseousTemplates, intBits, gaseousDecompressAlgo>>

CallParseClientHello ==
    \E data \in ParseInputs :
        /\ pc = "idle"
        /\ pc' = "done"
        /\ call' = [NoCall EXCEPT !.op = "parseClientHello", !.data = data]
        /\ ret' = Returned(parseClientHello(data))
        /\ attempts' = <<>>
        /\ UNCHANGED <<gaseousTemplates, intBits, gaseousDecompressAlgo>>

CallDecompressLZ4Block ==
    \E data \in LZ4BlockInputs :
        /\ pc = "idle"
        /\ pc' = "done"
        /\ call' = [NoCall EXCEPT !.op = "decompressLZ4Block", !.data = data]
        /\ ret' = Returned(decompressLZ4Block(data, intBits))
        /\ attempts' = <<>>
        /\ UNCHANGED <<gaseousTemplates, intBits, gaseousDecompressAlgo>>

CallDecompressLZ4BlockP1 ==
    \E data \in LZ4BlockInputs :
        /\ pc = "idle"
        /\ pc' = "done"
        /\ call' = [NoCall EXCEPT !.op = "decompressLZ4BlockP1", !.data = data]
        /\ ret' = Returned(decompressLZ4BlockP1(data, intBits))
        /\ attempts' = <<>>
        /\ UNCHANGED <<gaseousTemplates, intBits, gaseousDecompressAlgo>>

\* the result is the pair (spec string, params)
CallMatchUTLSClientHello ==
    \E hello \in MatchInputs :
        /\ pc = "idle"
        /\ pc' = "done"
        /\ call' = [NoCall EXCEPT !.op = "matchUTLSClientHello", !.data = hello]
        /\ ret' = [NoRet EXCEPT !.out = matchUTLSClientHello(hello)]
        /\ attempts' = <<>>
        /\ UNCHANGED <<gaseousTemplates, intBits, gaseousDecompressAlgo>>

CallMatchUTLSClientHelloGC ==
    \E c \in MatchCallsGC :
        /\ pc = "idle"
        /\ pc' = "done"
        /\ call' = [NoCall EXCEPT !.op = "matchUTLSClientHelloGC", !.data = c[1],
                                  !.sni = c[2], !.alpn = c[3]]
        /\ ret' = [NoRet EXCEPT !.out = matchUTLSClientHelloGC(c[1], c[2], c[3])]
        /\ attempts' = <<>>
        /\ UNCHANGED <<gaseousTemplates, intBits, gaseousDecompressAlgo>>

\* the caller takes the result; the next call can start
Return ==
    /\ pc = "done"
    /\ pc' = "idle"
    /\ call' = NoCall
    /\ ret' = NoRet
    /\ attempts' = <<>>
    /\ UNCHANGED <<gaseousTemplates, intBits, gaseousDecompressAlgo>>

Next ==
    \/ CallRegisterGaseousTemplate
    \/ CallSetGaseousDecompressAlgo
    \/ CallUnpackServerHelloGaseous
    \/ CallUnpackAnyGaseousHello
    \/ CallUnpackClientHelloGaseous
    \/ CallUnpackClientHelloGaseousGC
    \/ CallPackClientHelloGaseous
    \/ CallPackClientHelloGaseousGC
    \/ CallParseClientHello
    \/ CallDecompressLZ4Block
    \/ CallDecompressLZ4BlockP1
    \/ CallMatchUTLSClientHello
    \/ CallMatchUTLSClientHelloGC
    \/ Return

Spec == Init /\ [][Next]_vars

(***************************************************************************)
(*                 Two execution contexts on the registry                  *)
(* One context calls RegisterGaseousTemplate while another one calls       *)
(* UnpackServerHelloGaseous.  Here pc gives the position of each context,  *)
(* and a map access is a step that begins and a step that ends: the map    *)
(* statement of the writer (line 80) and the two lookups of the reader      *)
(* (lines 106 and 121) take time.  call holds the arguments of both calls.  *)
(* A lookup that overlaps a write is a data race: it yields what the map    *)
(* holds when it ends, or the run-time stops the process.                   *)
(***************************************************************************)
\* frames the reading context unpacks
RaceFrames ==
    {Frame(GaseousHelloMagic, GaseousHelloVersion, a, GaseousHelloTypeServer, tid, PutUint32(1), <<1>>) :
        a \in {GaseousCompressNone, 99}, tid \in TemplateIds}
      \cup {Frame(<<71, 0>>, GaseousHelloVersion, GaseousCompressNone, GaseousHelloTypeServer, 0,
                  PutUint32(1), <<1>>)}

InLookup == {"reading106", "racing106", "reading121", "racing121"}
\* the position of a reader whose lookup a write overlaps
Raced(pos) ==
    IF pos = "reading106" THEN "racing106"
    ELSE IF pos = "reading121" THEN "racing121"
    ELSE pos

InitRace ==
    /\ gaseousTemplates = <<>>
    /\ intBits \in {32, 64}
    /\ gaseousDecompressAlgo = GaseousCompressFlate
    /\ pc = [writer |-> "idle", reader |-> "idle"]
    /\ call = NoCall
    /\ ret = NoRet
    /\ attempts = <<>>

\* RegisterGaseousTemplate(id, tmpl) is entered
RegisterCalled ==
    \E id \in TemplateIds, tmpl \in TemplateValues :
        /\ pc.writer = "idle"
        /\ pc' = [pc EXCEPT !.writer = "at80"]
        /\ call' = [call EXCEPT !.id = id, !.tmpl = tmpl]
        /\ UNCHANGED <<gaseousTemplates, intBits, gaseousDecompressAlgo, ret, attempts>>

\* variant: the write waits until no lookup is in progress
MapWriteBeginLocked ==
    /\ pc.writer = "at80"
    /\ pc.reader \notin InLookup
    /\ pc' = [pc EXCEPT !.writer = "writing"]
    /\ UNCHANGED <<gaseousTemplates, intBits, gaseousDecompressAlgo, call, ret, attempts>>

\* the assignment gaseousTemplates.Templates[id] = tmpl begins: nothing holds it back
MapWriteBegin ==
    /\ pc.writer = "at80"
    /\ pc' = [writer |-> "writing", reader |-> Raced(pc.reader)]
    /\ UNCHANGED <<gaseousTemplates, intBits, gaseousDecompressAlgo, call, ret, attempts>>

\* the assignment is done and RegisterGaseousTemplate returns
MapWriteEnd ==
    /\ pc.writer = "writing"
    /\ gaseousTemplates' = MapPut(gaseousTemplates, call.id, call.tmpl)
    /\ pc' = [pc EXCEPT !.writer = "idle"]
    /\ UNCHANGED <<intBits, gaseousDecompressAlgo, call, ret, attempts>>

\* UnpackServerHelloGaseous(data) is entered and runs up to the first lookup
UnpackCalled ==
    \E data \in RaceFrames :
        /\ pc.reader = "idle"
        /\ call' = [call EXCEPT !.op = "UnpackServerHelloGaseous", !.data = data]
        /\ IF serverHeaderCheck(data) # NoErr
           THEN /\ pc' = [pc EXCEPT !.reader = "done"]
                /\ ret' = Returned(Fail(serverHeaderCheck(data)))
           ELSE /\ pc' = [pc EXCEPT !.reader = "at106"]
                /\ ret' = NoRet
        /\ UNCHANGED <<gaseousTemplates, intBits, gaseousDecompressAlgo, attempts>>

\* a lookup begins: nothing holds it back
MapReadBegin ==
    /\ pc.reader \in {"at106", "at121"}
    /\ pc' = [pc EXCEPT !.reader =
                 IF pc.reader = "at106"
                 THEN (IF pc.writer = "writing" THEN "racing106" ELSE "reading106")
                 ELSE (IF pc.writer = "writing" THEN "racing121" ELSE "reading121")]
    /\ UNCHANGED <<gaseousTemplates, intBits, gaseousDecompressAlgo, call, ret, attempts>>

\* the lookup of line 106 ends; the call runs on to the lookup of line 121
LookupEnd ==
    /\ pc.reader \in {"reading106", "racing106"}
    /\ IF ReadHeader(call.data).TemplID \notin DOMAIN gaseousTemplates
       THEN /\ pc' = [pc EXCEPT !.reader = "done"]
            /\ ret' = Returned(Fail(ErrGaseousTemplate))
       ELSE IF serverPayload(call.data, intBits).err # NoErr
       THEN /\ pc' = [pc EXCEPT !.reader = "done"]
            /\ ret' = Returned(Fail(serverPayload(call.data, intBits).err))
       ELSE /\ pc' = [pc EXCEPT !.reader = "at121"]
            /\ ret' = NoRet
    /\ UNCHANGED <<gaseousTemplates, intBits, gaseousDecompressAlgo, call, attempts>>

\* the lookup of line 121 ends; the template is filled
FetchEnd ==
    /\ pc.reader \in {"reading121", "racing121"}
    /\ pc' = [pc EXCEPT !.reader = "done"]
    /\ ret' = Returned(fillHelloTemplate(Lookup(gaseousTemplates, ReadHeader(call.data).TemplID),
                                         serverPayload(call.data, intBits).out))
    /\ UNCHANGED <<gaseousTemplates, intBits, gaseousDecompressAlgo, call, attempts>>

\* the run-time detects the lookup that overlaps a write and ends the process
MapReadFatal ==
    /\ pc.reader \in {"racing106", "racing121"}
    /\ pc' = [writer |-> "dead", reader |-> "dead"]
    /\ ret' = [NoRet EXCEPT !.err = FatalConcurrentMap]
    /\ UNCHANGED <<gaseousTemplates, intBits, gaseousDecompressAlgo, call, attempts>>

\* the caller of the unpack takes the result
UnpackReturn ==
    /\ pc.reader = "done"
    /\ pc' = [pc EXCEPT !.reader = "idle"]
    /\ call' = [call EXCEPT !.op = "none", !.data = <<>>]
    /\ ret' = NoRet
    /\ UNCHANGED <<gaseousTemplates, intBits, gaseousDecompressAlgo, attempts>>

NextRace ==
    \/ RegisterCalled
    \/ MapWriteBegin
    \/ MapWriteEnd
    \/ UnpackCalled
    \/ MapReadBegin
    \/ LookupEnd
    \/ FetchEnd
    \/ MapReadFatal
    \/ UnpackReturn

SpecRace == InitRace /\ [][NextRace]_vars


(***************************************************************************)
(*            parseClientHello, one loop iteration at a time                *)
(*                                                                         *)
(* A third specification runs the three loops of the parser step by step:  *)
(* pc holds the loop the call is in (at), the offset ei of the extension   *)
(* record being read and the offset i (li) inside its body.  The code up   *)
(* to the extension block has no loop and is one step.  The reads of the   *)
(* loops are inside their buffers by the loop guards.                      *)
(***************************************************************************)
ParsePos(at, ei, i) == [at |-> at, ei |-> ei, i |-> i]

\* exts := body[i : i+extLen] of the call, the body of the extension record
\* at pc.ei, and the offset of the record behind it
CurExts == helloFields(call.data).exts
CurBody == Slice(CurExts, pc.ei + 4, pc.ei + 4 + Uint16(CurExts, pc.ei + 2))
NextExt == pc.ei + 4 + Uint16(CurExts, pc.ei + 2)

InitParse ==
    /\ gaseousTemplates = <<>>
    /\ intBits \in {32, 64}
    /\ gaseousDecompressAlgo = GaseousCompressFlate
    /\ pc = ParsePos("idle", 0, 0)
    /\ call = NoCall
    /\ ret = NoRet
    /\ attempts = <<>>

\* from the entry to the first test of the extension loop, or to a return
ParseCalled ==
    /\ pc.at = "idle"
    /\ \E data \in ParseInputs :
         /\ call' = [NoCall EXCEPT !.op = "parseClientHello", !.data = data]
         /\ IF "exts" \in DOMAIN helloFields(data)
            THEN /\ pc' = ParsePos("ext", 0, 0)
                 /\ ret' = Returned(Parsed(helloFields(data).out))
            ELSE /\ pc' = ParsePos("done", 0, 0)
                 /\ ret' = Returned(helloFields(data))
    /\ UNCHANGED <<gaseousTemplates, intBits, gaseousDecompressAlgo, attempts>>

\* one iteration of the extension loop, up to the call of parseSNI or
\* parseALPN and the first test of its loop
ExtStep ==
    /\ pc.at = "ext"
    /\ IF ~(pc.ei + 4 <= Len(CurExts)) \/ NextExt > Len(CurExts)
       THEN /\ pc' = ParsePos("done", 0, 0)
            /\ UNCHANGED ret
       ELSE /\ ret' = [ret EXCEPT !.out.Extensions = MapPut(@, Uint16(CurExts, pc.ei), CurBody)]
            /\ pc' = IF Uint16(CurExts, pc.ei) = 0 /\ Len(CurBody) >= 2
                     THEN ParsePos("sni", pc.ei, 2)
                     ELSE IF Uint16(CurExts, pc.ei) = 16 /\ Len(CurBody) >= 2
                     THEN ParsePos("alpn", pc.ei, 2)
                     ELSE ParsePos("ext", NextExt, 0)
    /\ UNCHANGED <<gaseousTemplates, intBits, gaseousDecompressAlgo, call, attempts>>

\* variant: an entry that is passed over advances the offset by its name only
SniStepNameOnly ==
    /\ pc.at = "sni"
    /\ LET data == CurBody
           i == pc.i
       IN IF ~(i + 3 <= Len(data) /\ i + Uint16(data, 0) <= Len(data))
          THEN /\ pc' = ParsePos("ext", NextExt, 0)
               /\ UNCHANGED ret
          ELSE IF data[i + 1] = 0 /\ i + 3 + Uint16(data, i + 1) <= Len(data)
          THEN /\ ret' = [ret EXCEPT !.out.SNI = Slice(data, i + 3, i + 3 + Uint16(data, i + 1))]
               /\ pc' = ParsePos("ext", NextExt, 0)
          ELSE /\ pc' = ParsePos("sni", pc.ei, i + Uint16(data, i + 1))
               /\ UNCHANGED ret
    /\ UNCHANGED <<gaseousTemplates, intBits, gaseousDecompressAlgo, call, attempts>>

\* one iteration of the loop of parseSNI
SniStep ==
    /\ pc.at = "sni"
    /\ LET data == CurBody
           i == pc.i
       IN IF ~(i + 3 <= Len(data) /\ i + Uint16(data, 0) <= Len(data))
          THEN /\ pc' = ParsePos("ext", NextExt, 0)
               /\ UNCHANGED ret
          ELSE IF data[i + 1] = 0 /\ i + 3 + Uint16(data, i + 1) <= Len(data)
          THEN /\ ret' = [ret EXCEPT !.out.SNI = Slice(data, i + 3, i + 3 + Uint16(data, i + 1))]
               /\ pc' = ParsePos("ext", NextExt, 0)
          ELSE /\ pc' = ParsePos("sni", pc.ei, i + 3 + Uint16(data, i + 1))
               /\ UNCHANGED ret
    /\ UNCHANGED <<gaseousTemplates, intBits, gaseousDecompressAlgo, call, attempts>>

\* one iteration of the loop of parseALPN
AlpnStep ==
    /\ pc.at = "alpn"
    /\ LET data == CurBody
           li == pc.i
       IN IF ~(li < Len(data) /\ li - 2 < Uint16(data, 0)) \/ li + 1 + data[li + 1] > Len(data)
          THEN /\ pc' = ParsePos("ext", NextExt, 0)
               /\ UNCHANGED ret
          ELSE /\ ret' = [ret EXCEPT !.out.ALPN =
                                        Append(@, Slice(data, li + 1, li + 1 + data[li + 1]))]
               /\ pc' = ParsePos("alpn", pc.ei, li + 1 + data[li + 1])
    /\ UNCHANGED <<gaseousTemplates, intBits, gaseousDecompressAlgo, call, attempts>>

ParseReturn ==
    /\ pc.at = "done"
    /\ pc' = ParsePos("idle", 0, 0)
    /\ call' = NoCall
    /\ ret' = NoRet
    /\ UNCHANGED <<gaseousTemplates, intBits, gaseousDecompressAlgo, attempts>>

NextParse ==
    \/ ParseCalled
    \/ ExtStep
    \/ SniStep
    \/ AlpnStep
    \/ ParseReturn

\* a call that is running keeps running: no step of the parser waits
SpecParse ==
    /\ InitParse
    /\ [][NextParse]_vars
    /\ WF_vars(ExtStep) /\ WF_vars(SniStep) /\ WF_vars(AlpnStep)

(***************************************************************************)
(*                      Properties of the unpack calls                     *)
(* The frame an unpack function reads, taken from the call's bytes by      *)
(* offset alone: the server direction reads its header at byte 0, the      *)
(* client direction behind the one-byte record marker.                     *)
(***************************************************************************)
ServerOps == {"UnpackServerHelloGaseous"}
ClientOps == {"UnpackClientHelloGaseous", "UnpackClientHelloGaseousGC"}
UnpackOps == ServerOps \cup ClientOps

IsUnpack == pc = "done" /\ call.op \in UnpackOps
SeenFrame == IF call.op \in ClientOps THEN SubSeq(call.data, 2, Len(call.data)) ELSE call.data
ExpectedType == IF call.op \in ClientOps THEN 1 ELSE 2
HasHeader == Len(SeenFrame) >= 11
MagicOK == SeenFrame[1] = 71 /\ SeenFrame[2] = 83
VersionOK == SeenFrame[3] = 1
TypeOK == SeenFrame[5] = ExpectedType
SeenAlgo == SeenFrame[4]
SeenTid == SeenFrame[6] * 256 + SeenFrame[7]
\* dataLen + 11 <= the bytes of the frame, on the u32 the four bytes spell
DeclaredFits ==
    /\ SeenFrame[8] = 0 /\ SeenFrame[9] = 0
    /\ SeenFrame[10] * 256 + SeenFrame[11] + 11 <= Len(SeenFrame)
SeenPayload == SubSeq(SeenFrame, 12, 11 + SeenFrame[10] * 256 + SeenFrame[11])
ValidFrame == HasHeader /\ MagicOK /\ VersionOK /\ TypeOK /\ DeclaredFits

\* raw-mode frames as PackClientHelloGaseous emits them, with the hello packed
PackedRaw ==
    {x \in {[hello |-> c[1], frame |-> PackClientHelloGaseous(c[1], c[2])] : c \in PackCalls}
            \cup {[hello |-> c[1], frame |-> PackClientHelloGaseousGC(c[1], c[2], c[3], c[4])] :
                     c \in PackCallsGC} :
        x.frame.err = NoErr /\ x.frame.out[7] = 0 /\ x.frame.out[8] = 0}

\* C1: raw-mode round trip.  Unpacking a frame that was packed with
\* templateId = 0 returns exactly the bytes that were packed: for the frames
\* PackClientHelloGaseous emits in raw mode, and for a server-direction frame
\* whose payload is the compression of a blob under its header's algorithm.
C1_RawRoundTrip ==
    /\ (pc = "done" /\ call.op \in ClientOps) =>
          \A x \in PackedRaw :
              call.data = x.frame.out => (ret.err = NoErr /\ ret.out = x.hello)
    /\ (pc = "done" /\ call.op \in ServerOps) =>
          \A a \in 0..7, p \in Plains :
              call.data = Frame(<<71, 83>>, 1, a, 2, 0, PutUint32(Len(Encode(a, p))), Encode(a, p))
                 => (ret.err = NoErr /\ ret.out = p)

\* C2: header integrity.  On a frame of at least header length: a wrong magic
\* byte gives ErrGaseousMagic; right magic and a version other than 1 gives
\* ErrGaseousVersion; right magic and version and a helloType other than the
\* one the called function expects gives ErrGaseousType.
C2_HeaderIntegrity ==
    (IsUnpack /\ HasHeader) =>
        /\ ~MagicOK => ret.err = ErrGaseousMagic
        /\ (MagicOK /\ ~VersionOK) => ret.err = ErrGaseousVersion
        /\ (MagicOK /\ VersionOK /\ ~TypeOK) => ret.err = ErrGaseousType

C2_Witness ==
    /\ IsUnpack /\ call.op \in ClientOps /\ HasHeader
    /\ MagicOK /\ VersionOK /\ SeenFrame[5] = 2
    /\ ret.err = ErrGaseousType

\* C3: truncation safety.  A buffer shorter than the header gives
\* ErrGaseousTrunc; a frame with valid magic, version and helloType whose
\* dataLen + 11 exceeds the bytes available gives ErrGaseousTrunc; and no
\* unpack call slices its buffer out of range.
C3_TruncationSafety ==
    IsUnpack =>
        /\ ~HasHeader => ret.err = ErrGaseousTrunc
        /\ (HasHeader /\ MagicOK /\ VersionOK /\ TypeOK /\ ~DeclaredFits) => ret.err = ErrGaseousTrunc
        /\ ret.err # PanicSliceBounds

\* the frame's templateId is one the called function can serve: raw,
\* fingerprint, or a registered template
TidServed ==
    \/ SeenTid \in {0, 65535}
    \/ SeenTid \in DOMAIN gaseousTemplates /\ ~gaseousTemplates[SeenTid].isNil

\* C4: unknown algorithm.  An otherwise valid frame whose algo byte is not
\* one of 0..7 is answered with ErrGaseousAlgo in every templateId mode.
C4_UnknownAlgorithm ==
    (IsUnpack /\ ValidFrame /\ TidServed /\ SeenAlgo \notin 0..7) => ret.err = ErrGaseousAlgo

\* the payload of the frame decompresses under the algorithm of its header,
\* as far as the called function supports that algorithm
SeenPlain == gaseousDecompressData(SeenPayload, SeenAlgo, intBits)
Decompressible ==
    /\ SeenPlain.err = NoErr
    /\ call.op = "UnpackClientHelloGaseousGC" => SeenAlgo \in 0..4

\* C5: unknown template.  A valid, decompressible frame whose templateId is
\* neither 0 nor 0xFFFF and is not in the registry is answered with
\* ErrGaseousTemplate and no bytes.
C5_UnknownTemplate ==
    (IsUnpack /\ ValidFrame /\ Decompressible
       /\ SeenTid \notin {0, 65535} /\ SeenTid \notin DOMAIN gaseousTemplates)
    => (ret.err = ErrGaseousTemplate /\ ret.out = <<>>)

C5_Witness ==
    /\ IsUnpack /\ call.op = "UnpackClientHelloGaseous"
    /\ ValidFrame /\ Decompressible /\ SeenAlgo # 0 /\ SeenPayload # <<>>
    /\ SeenTid = 5 /\ DOMAIN gaseousTemplates = {0}
    /\ ret.err = ErrGaseousTemplate

\* C6: template fill.  A successful template-mode unpack returns the
\* registered skeleton followed by the decompressed payload: the skeleton is a
\* prefix of the output, the payload is the rest, and the output's length is
\* the sum of the two lengths.
C6_TemplateFill ==
    (IsUnpack /\ ValidFrame /\ SeenTid \notin {0, 65535} /\ ret.err = NoErr)
    => /\ SeenTid \in DOMAIN gaseousTemplates
       /\ ~gaseousTemplates[SeenTid].isNil
       /\ SeenPlain.err = NoErr
       /\ LET skeleton == gaseousTemplates[SeenTid].Serialized
              p == SeenPlain.out
          IN /\ Len(ret.out) = Len(skeleton) + Len(p)
             /\ SubSeq(ret.out, 1, Len(skeleton)) = skeleton
             /\ SubSeq(ret.out, Len(skeleton) + 1, Len(ret.out)) = p

C6_Witness ==
    /\ IsUnpack /\ call.op = "UnpackServerHelloGaseous"
    /\ ValidFrame /\ SeenTid = 5 /\ SeenAlgo # 0 /\ ret.err = NoErr
    /\ gaseousTemplates[5].Serialized # <<>>
    /\ SeenPlain.out # <<>>
    /\ SeenPlain.out # gaseousTemplates[5].Serialized
    /\ ret.out = gaseousTemplates[5].Serialized \o SeenPlain.out

C8_RegistryAdditive ==
    [][ /\ \A id \in DOMAIN gaseousTemplates : id \in DOMAIN gaseousTemplates'
        /\ (pc = "idle" /\ call'.op = "RegisterGaseousTemplate") =>
              /\ DOMAIN gaseousTemplates' = DOMAIN gaseousTemplates \cup {call'.id}
              /\ gaseousTemplates'[call'.id] = call'.tmpl
              /\ \A k \in DOMAIN gaseousTemplates \ {call'.id} :
                     gaseousTemplates'[k] = gaseousTemplates[k]
        /\ (pc = "idle" /\ call'.op # "RegisterGaseousTemplate") =>
              gaseousTemplates' = gaseousTemplates
      ]_vars

C8_Witness ==
    /\ pc = "done" /\ call.op = "RegisterGaseousTemplate" /\ call.id = 5
    /\ DOMAIN gaseousTemplates = {0, 5}
    /\ gaseousTemplates[5] = call.tmpl
    /\ gaseousTemplates[0] # call.tmpl

(***************************************************************************)
(*                       Properties of the pack calls                      *)
(***************************************************************************)
PackOps == {"PackClientHelloGaseous", "PackClientHelloGaseousGC"}
IsPacked == pc = "done" /\ call.op \in PackOps /\ ret.err = NoErr
PackedAlgo == ret.out[5]
PackedTid == ret.out[7] * 256 + ret.out[8]
PackedPayload == SubSeq(ret.out, 13, Len(ret.out))
\* the verdict of the matcher the called pack function consults
Accepted ==
    IF call.op = "PackClientHelloGaseousGC"
    THEN matchUTLSClientHelloGC(call.data, call.sni, call.alpn)
    ELSE matchUTLSClientHello(call.data)

\* C9: pack mode selection.  A packed frame carries templateId 0xFFFF with
\* the compressed JSON of the matched parameters if and only if the matcher
\* accepts the hello; otherwise it carries templateId 0 with the compressed
\* hello bytes.
C9_PackModeSelection ==
    IsPacked =>
        /\ PackedTid \in {0, 65535}
        /\ PackedTid = 65535 <=> Accepted.spec # <<>>
        /\ PackedTid = 65535 =>
              gaseousDecompressData(PackedPayload, PackedAlgo, 64) = Ok(jsonMarshal(Accepted.params))
        /\ PackedTid = 0 =>
              gaseousDecompressData(PackedPayload, PackedAlgo, 64) = Ok(call.data)

C9_Witness ==
    /\ IsPacked /\ call.op = "PackClientHelloGaseous"
    /\ Accepted.spec # <<>> /\ PackedTid = 65535
    /\ Accepted.params.SNI # <<>>
    /\ PackedPayload # <<>>

\* C10: wire layout.  A packed frame is the marker 0xFE, 'G' 'S', version 1,
\* the algo byte of the algorithm that produced the payload, helloType 1,
\* the templateId big-endian, the payload length big-endian on four bytes,
\* then the payload; the 219-byte hello packed raw with Brotli at 220 payload
\* bytes starts FE 47 53 01 03 01 00 00 00 00 00 DC.
C10_WireLayout ==
    IsPacked =>
        /\ Len(ret.out) >= 12
        /\ ret.out[1] = 254
        /\ ret.out[2] = 71 /\ ret.out[3] = 83
        /\ ret.out[4] = 1
        /\ PackedAlgo \in 1..7 /\ PackedAlgo \notin call.failing
        /\ gaseousDecompressData(PackedPayload, PackedAlgo, 64).err = NoErr
        /\ ret.out[6] = 1
        /\ <<ret.out[7], ret.out[8]>> = (IF Accepted.spec # <<>> THEN <<255, 255>> ELSE <<0, 0>>)
        /\ ret.out[9] = 0 /\ ret.out[10] = 0
        /\ ret.out[11] * 256 + ret.out[12] = Len(PackedPayload)
        /\ Len(ret.out) = 12 + Len(PackedPayload)
        /\ (Len(call.data) = 219 /\ PackedTid = 0 /\ PackedAlgo = 3) =>
              SubSeq(ret.out, 1, 12) = <<254, 71, 83, 1, 3, 1, 0, 0, 0, 0, 0, 220>>

C10_Witness ==
    /\ IsPacked /\ call.op = "PackClientHelloGaseousGC"
    /\ Len(call.data) = 219 /\ PackedAlgo = 3 /\ PackedTid = 0
    /\ Len(PackedPayload) = 220
    /\ ret.out[12] = 220

\* the fixed order of the fallback chain
ChainOrder == <<1, 2, 3, 4, 5, 6, 7>>
ChainFailed(i) == ChainOrder[i] \in call.failing
IsPackCall == pc = "done" /\ call.op = "PackClientHelloGaseous"

\* C11: compression fallback chain.  PackClientHelloGaseous calls the
\* compressors in the order Flate, Gzip, Brotli, Zstd, LZ4, XZ, LZ4Block; the
\* frame is built from the first one that returns no error and none is called
\* after it; the call returns the aggregate compression-failure error if and
\* only if all seven failed.
C11_FallbackChain ==
    IsPackCall =>
        /\ Len(attempts) \in 1..7
        /\ \A i \in 1..Len(attempts) : attempts[i] = ChainOrder[i]
        /\ \A i \in 1..(Len(attempts) - 1) : ChainFailed(i)
        /\ ret.err \in {NoErr, ErrAllCompression}
        /\ ret.err = NoErr =>
              /\ ~ChainFailed(Len(attempts))
              /\ PackedAlgo = attempts[Len(attempts)]
              /\ gaseousDecompressData(PackedPayload, PackedAlgo, 64).err = NoErr
        /\ ret.err = ErrAllCompression <=> \A i \in 1..7 : ChainFailed(i)
        /\ ret.err = ErrAllCompression => Len(attempts) = 7 /\ ret.out = <<>>

C11_Witness ==
    /\ IsPackCall /\ ret.err = NoErr
    /\ call.failing = {1, 2}
    /\ attempts = <<1, 2, 3>>
    /\ PackedAlgo = 3

(***************************************************************************)
(*                       Properties of the parser calls                    *)
(***************************************************************************)
IsParse == pc = "done" /\ call.op = "parseClientHello"
\* the results that leave before the handshake body is read
EarlyErrs ==
    {"too short", "truncated TLS record", "truncated handshake", "not clienthello",
     "truncated handshake body"}
\* where the handshake layer of the call's buffer starts, by the bytes alone
SeenHsOffset ==
    IF call.data[1] = 22 /\ call.data[2] = 3 /\ call.data[3] \in 1..4 THEN 5 ELSE 0
SeenHsLen ==
    call.data[SeenHsOffset + 2] * 65536 + call.data[SeenHsOffset + 3] * 256
      + call.data[SeenHsOffset + 4]
SeenBody == SubSeq(call.data, SeenHsOffset + 5, SeenHsOffset + 4 + SeenHsLen)

\* the first field of the body b that does not fit, from the layout: version
\* (2), random (32), session id (1 + n), cipher suites (2 + n, n even),
\* compression methods (1 + n), then nothing or the extensions (2 + n)
FirstShortfall(b) ==
    LET sid == b[35]
        eSid == 35 + sid
        cs == b[eSid + 1] * 256 + b[eSid + 2]
        eCs == eSid + 2 + cs
        comp == b[eCs + 1]
        eComp == eCs + 1 + comp
        ext == b[eComp + 1] * 256 + b[eComp + 2]
    IN IF Len(b) < 2 THEN "truncated version"
       ELSE IF Len(b) < 34 THEN "truncated random"
       ELSE IF Len(b) < 35 THEN "truncated sessionid len"
       ELSE IF Len(b) < eSid THEN "truncated sessionid"
       ELSE IF Len(b) < eSid + 2 THEN "truncated ciphersuites len"
       ELSE IF Len(b) < eCs \/ cs % 2 = 1 THEN "truncated/invalid ciphersuites"
       ELSE IF Len(b) < eCs + 1 THEN "truncated compression methods len"
       ELSE IF Len(b) < eComp THEN "truncated compression methods"
       ELSE IF Len(b) = eComp THEN NoErr
       ELSE IF Len(b) < eComp + 2 THEN "truncated extensions len"
       ELSE IF Len(b) < eComp + 2 + ext THEN "truncated extensions body"
       ELSE NoErr

\* C12: parser bounds discipline.  parseClientHello, parseSNI and parseALPN
\* never fail a run-time bounds check; a body in which a length-prefixed field
\* (version, random, session id, cipher suites, compression methods,
\* extensions length, extensions body) does not fit makes parseClientHello
\* return the error that names the first such field and no record; a
\* successful parse returns fields that lie inside the body.
C12_ParserBounds ==
    IsParse =>
        /\ ret.err \notin Panics
        /\ ret.err \notin EarlyErrs => ret.err = FirstShortfall(SeenBody)
        /\ ret.err # NoErr => ret.out = EmptyParsed
        /\ ret.err = NoErr =>
              /\ ret.out.Random = SubSeq(SeenBody, 3, 34)
              /\ ret.out.SessionID = SubSeq(SeenBody, 36, 35 + SeenBody[35])
              /\ 37 + SeenBody[35] + 2 * Len(ret.out.CipherSuites)
                    + 1 + Len(ret.out.CompressionMethods) <= Len(SeenBody)
              /\ \A t \in DOMAIN ret.out.Extensions :
                    Len(ret.out.Extensions[t]) + 4 <= Len(SeenBody)

C12_Witness ==
    /\ IsParse
    /\ ret.err = "truncated sessionid"
    /\ Len(SeenBody) = 35 /\ SeenBody[35] = 1

\* the errors parseClientHello returns
ParserErrs ==
    EarlyErrs \cup
    {"truncated version", "truncated random", "truncated sessionid len", "truncated sessionid",
     "truncated ciphersuites len", "truncated/invalid ciphersuites",
     "truncated compression methods len", "truncated compression methods",
     "truncated extensions len", "truncated extensions body"}
\* the handshake type byte of the call's buffer, by the bytes alone
HasTypeByte == Len(call.data) >= 3 /\ Len(call.data) > SeenHsOffset
SeenType == call.data[SeenHsOffset + 1]
RecordFits == SeenHsOffset = 0 \/ Len(call.data) >= 5 + Uint16(call.data, 3)

\* C13: the parser rejects every input whose handshake type byte, the first
\* byte behind an optional five-byte record header, is not 0x01: it returns
\* one of its errors and no parsed record, and for a buffer of nine bytes or
\* more whose record fits the error is "not clienthello".
C13_TypeByteRejected ==
    (IsParse /\ HasTypeByte /\ SeenType # 1) =>
        /\ ret.err \in ParserErrs
        /\ ret.out = EmptyParsed
        /\ (Len(call.data) >= 9 /\ RecordFits) => ret.err = "not clienthello"

C13_Witness ==
    /\ IsParse /\ HasTypeByte
    /\ SeenHsOffset = 5 /\ SeenType = 2
    /\ Len(call.data) = 5 + Len(ParseHello)
    /\ ret.err = "not clienthello" /\ ret.out = EmptyParsed

(***************************************************************************)
(*                      Properties of the matcher calls                    *)
(***************************************************************************)
MatchOps == {"matchUTLSClientHello", "matchUTLSClientHelloGC"}
IsMatch == pc = "done" /\ call.op \in MatchOps
\* the hello of the call as the called matcher decodes it
MatchDecoded ==
    IF call.op = "matchUTLSClientHelloGC" THEN Unmarshal(call.data).ok
    ELSE parseClientHello(call.data).err = NoErr
\* the fields of the hello of the call
MatchHello == parseClientHello(call.data).out
\* the score the called matcher gives the k-th spec of the database
ScoreOf(k) ==
    IF call.op = "matchUTLSClientHelloGC"
    THEN compareClientHelloSpec(Unmarshal(call.data), UTLSIdToSpec(allUTLSIDs[k]).spec,
                                call.sni, call.alpn)
    ELSE specScore(MatchHello, UTLSIdToSpec(allUTLSIDs[k]).spec)
MaxScore == CHOOSE m \in {ScoreOf(k) : k \in 1..4} : \A k \in 1..4 : ScoreOf(k) <= m
ThresholdOf == IF call.op = "matchUTLSClientHelloGC" THEN 50 ELSE 10
MatchAccepted == MatchDecoded /\ MaxScore >= ThresholdOf

\* C14: matcher acceptance policy.  matchUTLSClientHello returns a match if
\* and only if the maximum score over the specs of the database reaches the
\* threshold; the returned spec id attains that maximum, and the returned
\* params carry that id with the sni, alpn, random and sessionId of the parsed
\* hello; otherwise it returns no match.
C14_MatcherPolicy ==
    IsMatch =>
        /\ ret.out.spec # <<>> <=> MatchAccepted
        /\ ret.out.spec # <<>> =>
              /\ \E k \in 1..4 : allUTLSIDs[k] = ret.out.spec /\ ScoreOf(k) = MaxScore
              /\ ret.out.params =
                    [SpecType |-> ret.out.spec, SNI |-> MatchHello.SNI, ALPN |-> MatchHello.ALPN,
                     Random |-> MatchHello.Random, SessionID |-> MatchHello.SessionID]
        /\ ret.out.spec = <<>> => ret.out = NoMatch

(***************************************************************************)
(*                    Properties of fingerprint-mode unpack                *)
(***************************************************************************)
\* the params the payload of the frame spells
SeenParams == jsonUnmarshal(SeenPlain.out)
\* the spec id names an entry of the database, letter case aside
NamesSpec(specId) == \E i \in 1..Len(allUTLSIDs) : EqualFold(allUTLSIDs[i], specId)
\* the reconstructor of the called function, on the given params
Reconstructed(params) ==
    IF call.op = "UnpackClientHelloGaseousGC"
    THEN buildUTLSClientHelloGC(params, call.entropy)
    ELSE buildUTLSClientHello(params, call.entropy)
IsFingerprintUnpack ==
    /\ pc = "done" /\ call.op \in ClientOps
    /\ ValidFrame /\ SeenTid = 65535
    /\ SeenAlgo \in 0..7 /\ SeenPlain.err = NoErr

\* C15: fingerprint-mode unpack.  For a valid frame with templateId 0xFFFF
\* whose payload decompresses, the decompressed payload is deserialized as
\* FingerprintParams; a specId that names no entry of the database gives the
\* unknown-spec error and no bytes; otherwise the result is the one of the
\* reconstructor on exactly those params.
C15_FingerprintUnpack ==
    IsFingerprintUnpack =>
        /\ SeenParams.err # NoErr => (ret.err = SeenParams.err /\ ret.out = <<>>)
        /\ (SeenParams.err = NoErr /\ ~NamesSpec(SeenParams.params.SpecType)) =>
              (ret.err = ErrUnknownSpec /\ ret.out = <<>>)
        /\ (SeenParams.err = NoErr /\ NamesSpec(SeenParams.params.SpecType)) =>
              (ret.err # ErrUnknownSpec /\ ret = Returned(Reconstructed(SeenParams.params)))

(***************************************************************************)
(*                    Properties of the LZ4Block decoder                   *)
(***************************************************************************)
LZ4Ops == {"decompressLZ4Block", "decompressLZ4BlockP1"}
IsLZ4Block == pc = "done" /\ call.op \in LZ4Ops
\* the declared length fits two bytes, and is then this number
DeclaredSmall == call.data[1] = 0 /\ call.data[2] = 0
DeclaredLen == call.data[3] * 256 + call.data[4]
\* what the block behind the prefix decodes to
SeenBlock == SubSeq(call.data, 5, Len(call.data))
BlockPlain ==
    IF SeenBlock = <<>> THEN Ok(<<>>) ELSE codecDecompress(GaseousCompressLZ4Block, SeenBlock)

\* C16: LZ4Block decompression.  The payload is a four-byte big-endian length
\* N and a raw block.  decompressLZ4Block returns an error when the payload has
\* less than four bytes, when the block does not decode, and whenever the
\* block decodes to a number of bytes other than N; a successful call returns
\* exactly N bytes, the decoded block; no call panics.
C16_LZ4BlockLength ==
    IsLZ4Block =>
        /\ ret.err \notin Panics
        /\ Len(call.data) < 4 => ret.err # NoErr
        /\ Len(call.data) >= 4 =>
              /\ BlockPlain.err # NoErr => ret.err # NoErr
              /\ (BlockPlain.err = NoErr /\ ~(DeclaredSmall /\ Len(BlockPlain.out) = DeclaredLen))
                    => ret.err # NoErr
              /\ ret.err = NoErr =>
                    (DeclaredSmall /\ Len(ret.out) = DeclaredLen /\ ret.out = BlockPlain.out)
        /\ ret.err # NoErr => ret.out = <<>>

(***************************************************************************)
(*                     Properties of the record marker                     *)
(***************************************************************************)
\* the frame of the call without its marker, and the call's function on any bytes
Unmarked == IF call.data # <<>> /\ call.data[1] = 254 THEN Tail(call.data) ELSE call.data
UnpackOf(bytes) ==
    CASE call.op = "UnpackServerHelloGaseous" ->
           UnpackServerHelloGaseous(bytes, gaseousTemplates, intBits)
      [] call.op = "UnpackClientHelloGaseous" ->
           UnpackClientHelloGaseous(bytes, gaseousTemplates, intBits, call.entropy)
      [] OTHER ->
           UnpackClientHelloGaseousGC(bytes, gaseousTemplates, intBits, call.entropy)

\* C17: the 0xFE record marker is optional on unpack.  For every frame F,
\* unpacking F and unpacking 0xFE followed by F give the same result: the
\* result of the call is the one its function gives for the frame without the
\* marker and for the frame with it.
C17_MarkerOptional ==
    IsUnpack =>
        /\ ret = Returned(UnpackOf(Unmarked))
        /\ ret = Returned(UnpackOf(<<254>> \o Unmarked))

(***************************************************************************)
(*               Properties of the two contexts on the registry            *)
(***************************************************************************)
\* C18: the registry has no internal synchronization.  Register and lookup
\* are not mutually exclusive: a write that is due can begin while a lookup
\* is in progress, and a lookup that is due can begin while the write is in
\* progress; the state in which the map write and a map read are concurrent
\* is reachable.
C18_NoMutualExclusion ==
    /\ (pc.writer = "at80" /\ pc.reader \in InLookup) => ENABLED MapWriteBegin
    /\ (pc.writer = "writing" /\ pc.reader \in {"at106", "at121"}) => ENABLED MapReadBegin

\* the write of line 80 and the lookup of line 121 overlap
C18_Witness ==
    /\ pc.writer = "writing"
    /\ pc.reader = "racing121"
    /\ call.id = ReadHeader(call.data).TemplID

\* the first three bytes of the call's buffer look like a record header
RecordPrefix == SeenHsOffset = 5

HasExtBlock ==
    /\ IsParse
    /\ Len(call.data) >= 4 + ParseFixedLen + 2
    /\ call.data[1] = 1
    /\ SeenHsLen = Len(call.data) - 4
    /\ SubSeq(call.data, 5, 4 + ParseFixedLen) = Slice(ParseBody, 0, ParseFixedLen)
    /\ Uint16(call.data, 4 + ParseFixedLen) = Len(call.data) - (4 + ParseFixedLen + 2)
SeenExts == SubSeq(call.data, 4 + ParseFixedLen + 3, Len(call.data))

\* where the first record of the block b, from e on, that is not whole starts
RECURSIVE WholeEnd(_, _)
WholeEnd(b, e) ==
    IF e + 4 > Len(b) \/ e + 4 + Uint16(b, e + 2) > Len(b) THEN e
    ELSE WholeEnd(b, e + 4 + Uint16(b, e + 2))
\* the whole records of the block b from e on, as <<type, body>>
RECURSIVE WholeRecords(_, _)
WholeRecords(b, e) ==
    IF e = WholeEnd(b, e) THEN <<>>
    ELSE <<<<Uint16(b, e), SubSeq(b, e + 5, e + 4 + Uint16(b, e + 2))>>>>
           \o WholeRecords(b, e + 4 + Uint16(b, e + 2))
\* a record of the block has its header in the block and declares more bytes
\* than the block holds behind it
HasOverrun == HasExtBlock /\ WholeEnd(SeenExts, 0) + 4 <= Len(SeenExts)
OverrunType == Uint16(SeenExts, WholeEnd(SeenExts, 0))
\* the call's hello without the overrunning record
WithoutOverrun ==
    Handshake(1, Slice(ParseBody, 0, ParseFixedLen)
                   \o PutUint16(WholeEnd(SeenExts, 0))
                   \o SubSeq(SeenExts, 1, WholeEnd(SeenExts, 0)))

\* C20: partial extension lists are tolerated.  When an extension record
\* declares a length that overruns the extensions block, parseClientHello
\* returns success; extensions holds exactly the records before the
\* overrunning one, and sni and alpn are what the hello without the
\* overrunning record gives.
C20_PartialExtensions ==
    HasOverrun =>
        LET recs == WholeRecords(SeenExts, 0) IN
        /\ ret.err = NoErr
        /\ DOMAIN ret.out.Extensions = {recs[k][1] : k \in DOMAIN recs}
        /\ \A k \in DOMAIN recs :
              (\A l \in DOMAIN recs : l > k => recs[l][1] # recs[k][1])
                  => ret.out.Extensions[recs[k][1]] = recs[k][2]
        /\ ret.out.SNI = parseHandshake(WithoutOverrun).out.SNI
        /\ ret.out.ALPN = parseHandshake(WithoutOverrun).out.ALPN

C20_Witness ==
    /\ HasOverrun
    /\ OverrunType = 0
    /\ Len(WholeRecords(SeenExts, 0)) = 1
    /\ ret.err = NoErr
    /\ DOMAIN ret.out.Extensions = {23}
    /\ ret.out.SNI = <<>>

\* the body of the one server_name record of the call's hello
SniRecords ==
    {k \in DOMAIN WholeRecords(SeenExts, 0) : WholeRecords(SeenExts, 0)[k][1] = 0}
SeenSniBody == WholeRecords(SeenExts, 0)[CHOOSE k \in SniRecords : TRUE][2]
\* the entries (nameType, nameLen, name) from i on fill the body b
RECURSIVE EntriesTile(_, _)
EntriesTile(b, i) ==
    \/ i = Len(b)
    \/ /\ i + 3 <= Len(b)
       /\ i + 3 + Uint16(b, i + 1) <= Len(b)
       /\ EntriesTile(b, i + 3 + Uint16(b, i + 1))
WellFormedSni(b) == Len(b) >= 2 /\ Uint16(b, 0) = Len(b) - 2 /\ EntriesTile(b, 2)
\* the name of the first entry of type 0 of the body b, from i on
RECURSIVE FirstHostName(_, _)
FirstHostName(b, i) ==
    IF i + 3 > Len(b) THEN <<>>
    ELSE IF b[i + 1] = 0 THEN SubSeq(b, i + 4, i + 3 + Uint16(b, i + 1))
    ELSE FirstHostName(b, i + 3 + Uint16(b, i + 1))
HasOneSni ==
    /\ HasExtBlock /\ ~HasOverrun
    /\ Cardinality(SniRecords) = 1
    /\ WellFormedSni(SeenSniBody)

\* C21: SNI extraction.  For every server_name extension body (list length,
\* then entries of nameType, nameLen, name) the parsed SNI is the name of the
\* first entry in list order whose nameType is 0, also when entries of
\* another nameType precede it; later entries are not examined.
C21_SniFirstHostName ==
    HasOneSni => (ret.err = NoErr /\ ret.out.SNI = FirstHostName(SeenSniBody, 2))

\* the body of the one ALPN record of the call's hello
AlpnRecords ==
    {k \in DOMAIN WholeRecords(SeenExts, 0) : WholeRecords(SeenExts, 0)[k][1] = 16}
SeenAlpnBody == WholeRecords(SeenExts, 0)[CHOOSE k \in AlpnRecords : TRUE][2]
HasOneAlpn == HasExtBlock /\ ~HasOverrun /\ Cardinality(AlpnRecords) = 1
\* the protocols of the entries (len, proto) of the body b from li on: those
\* that start before the declared list length ends, up to the first one that
\* overruns the body
RECURSIVE DeclaredProtos(_, _)
DeclaredProtos(b, li) ==
    IF li >= Len(b) \/ li >= 2 + Uint16(b, 0) \/ li + 1 + b[li + 1] > Len(b) THEN <<>>
    ELSE <<SubSeq(b, li + 2, li + 1 + b[li + 1])>> \o DeclaredProtos(b, li + 1 + b[li + 1])

\* C22: ALPN extraction.  parseALPN decodes (len, proto) entries in order
\* until the declared list length is consumed and appends every decoded
\* name in wire order; it reads no entry that starts at or beyond the
\* declared list length, and stops without error at an entry that would
\* overrun the body.
C22_AlpnEntries ==
    HasOneAlpn =>
        /\ ret.err = NoErr
        /\ ret.out.ALPN = (IF Len(SeenAlpnBody) < 2 THEN <<>>
                           ELSE DeclaredProtos(SeenAlpnBody, 2))

C22_Witness ==
    /\ HasOneAlpn
    /\ SeenAlpnBody = <<0, 3, 2, 104, 50, 2, 104, 49>>
    /\ ret.out.ALPN = <<ProtoH2>>

\* C23: ParsedClientHello field invariant.  Every record that
\* parseClientHello returns successfully has a random of exactly 32 bytes
\* and a session id of 0 to 32 bytes.
C23_FieldLengths ==
    (IsParse /\ ret.err = NoErr) =>
        (Len(ret.out.Random) = 32 /\ Len(ret.out.SessionID) <= 32)

(***************************************************************************)
(*                     Properties of the score components                  *)
(***************************************************************************)
\* the protocol list the called matcher scores, and the names in a sequence
ClientAlpn == IF call.op = "matchUTLSClientHelloGC" THEN call.alpn ELSE MatchHello.ALPN
Names(q) == {q[i] : i \in DOMAIN q}
\* the protocol names of the ALPN extensions of the k-th spec of the database
SpecAlpnNames(k) ==
    UNION {Names(x.AlpnProtocols) :
             x \in {y \in Names(UTLSIdToSpec(allUTLSIDs[k]).spec.Extensions) : y.kind = "ALPN"}}
\* the score the called matcher gives the k-th spec when the client's
\* protocol list is empty, all else equal
ScoreNoAlpn(k) ==
    IF call.op = "matchUTLSClientHelloGC"
    THEN compareClientHelloSpec(Unmarshal(call.data), UTLSIdToSpec(allUTLSIDs[k]).spec,
                                call.sni, <<>>)
    ELSE specScore([MatchHello EXCEPT !.ALPN = <<>>], UTLSIdToSpec(allUTLSIDs[k]).spec)

\* C24: ALPN score component.  For every parsed hello and spec the ALPN
\* contribution to the score is 4 times the number of the client's ALPN
\* protocols that are also in the spec's ALPN list, each protocol counted
\* once whatever names are repeated in either list.
C24_AlpnScore ==
    (IsMatch /\ MatchDecoded) =>
        \A k \in 1..4 :
            ScoreOf(k) - ScoreNoAlpn(k)
              = 4 * Cardinality(Names(ClientAlpn) \cap SpecAlpnNames(k))

\* the extension types of the hello as the called matcher decodes it, and
\* those of the k-th spec of the database
HelloExtTypes ==
    IF call.op = "matchUTLSClientHelloGC" THEN Names(Unmarshal(call.data).Extensions)
    ELSE DOMAIN MatchHello.Extensions
SpecExtTypes(k) == {x.Type : x \in Names(UTLSIdToSpec(allUTLSIDs[k]).spec.Extensions)}
\* the score the called matcher gives the k-th spec when the hello has no
\* extension types, all else equal
ScoreNoExt(k) ==
    IF call.op = "matchUTLSClientHelloGC"
    THEN compareClientHelloSpec([Unmarshal(call.data) EXCEPT !.Extensions = <<>>],
                                UTLSIdToSpec(allUTLSIDs[k]).spec, call.sni, call.alpn)
    ELSE specScore([MatchHello EXCEPT !.Extensions = <<>>], UTLSIdToSpec(allUTLSIDs[k]).spec)

\* C25: extension-type overlap score component.  For every parsed hello and
\* spec the score includes +2 for each extension type that occurs both in
\* the hello's extension types and in the spec's.
C25_ExtOverlapScore ==
    (IsMatch /\ MatchDecoded) =>
        \A k \in 1..4 :
            ScoreOf(k) - ScoreNoExt(k) = 2 * Cardinality(HelloExtTypes \cap SpecExtTypes(k))

(***************************************************************************)
(*                      Properties of the reconstructor                    *)
(***************************************************************************)
\* a fingerprint-mode unpack that returned a rebuilt hello for the params of
\* its payload (the older unpack reads the payload as flate, whatever the
\* header says)
FingerprintBuilt ==
    /\ IsFingerprintUnpack
    /\ call.op = "UnpackClientHelloGaseousGC" => SeenAlgo = GaseousCompressFlate
    /\ SeenParams.err = NoErr
    /\ ret.err = NoErr
\* the fields of the rebuilt hello, and the extensions of the spec it is built on
BuiltHello == parseHandshake(ret.out).out
BuiltSpecExts ==
    UTLSIdToSpec(allUTLSIDs[Min({i \in 1..Len(allUTLSIDs) :
                                    EqualFold(allUTLSIDs[i], SeenParams.params.SpecType)})]).spec.Extensions
SpecHas(kind) == \E i \in DOMAIN BuiltSpecExts : BuiltSpecExts[i].kind = kind
SpecExt(kind) == BuiltSpecExts[CHOOSE i \in DOMAIN BuiltSpecExts : BuiltSpecExts[i].kind = kind]

\* C26: reconstructor override contract.  buildUTLSClientHello sets the
\* spec's server name to params.sni when sni is non-empty, replaces the spec's
\* ALPN list by params.alpn when alpn is non-empty, and applies params.random
\* and params.sessionId as overrides of the rebuilt hello when they are
\* present; when a field is empty or absent the spec's own value (for random
\* and session id, what the engine draws) is left unchanged.
C26_OverrideContract ==
    FingerprintBuilt =>
        LET p == SeenParams.params IN
        /\ SpecHas("SNI") =>
              BuiltHello.SNI = (IF p.SNI # <<>> THEN p.SNI ELSE SpecExt("SNI").ServerName)
        /\ SpecHas("ALPN") =>
              BuiltHello.ALPN = (IF p.ALPN # <<>> THEN p.ALPN ELSE SpecExt("ALPN").AlpnProtocols)
        /\ BuiltHello.Random = (IF p.Random # <<>> THEN p.Random ELSE call.entropy.random)
        /\ BuiltHello.SessionID
             = (IF p.SessionID # <<>> THEN p.SessionID ELSE call.entropy.sessionID)

(***************************************************************************)
(*             Properties of the choice of the decompressor                *)
(***************************************************************************)
\* the algorithms the switch of the called function has a case for
SupportedAlgos == IF call.op = "UnpackClientHelloGaseousGC" THEN 0..4 ELSE 0..7
IsFingerprintFrame == call.op \in ClientOps /\ SeenTid = 65535

\* C27: decompression algorithm selection on unpack.  In every templateId
\* mode, 0xFFFF included, the algorithm applied to the payload is the one the
\* header's algo byte names: a payload that does not decompress under it is
\* an error, and otherwise the result is built from the payload decompressed
\* under it, whatever default SetGaseousDecompressAlgo has set.
C27_HeaderAlgoApplied ==
    (IsUnpack /\ ValidFrame /\ SeenAlgo \in SupportedAlgos) =>
        /\ SeenPlain.err # NoErr => (ret.err # NoErr /\ ret.out = <<>>)
        /\ (SeenPlain.err = NoErr /\ IsFingerprintFrame) =>
              ret = Returned(IF SeenParams.err # NoErr THEN Fail(SeenParams.err)
                             ELSE Reconstructed(SeenParams.params))
        /\ (SeenPlain.err = NoErr /\ ~IsFingerprintFrame /\ ret.err = NoErr) =>
              ret.out = Lookup(gaseousTemplates, SeenTid).Serialized \o SeenPlain.out

(***************************************************************************)
(*                      Properties of the parser's loops                   *)
(***************************************************************************)
InLoop == pc.at \in {"ext", "sni", "alpn"}
\* a step that stays in its loop advances the loop's offset
LoopAdvances ==
    /\ (pc.at = "ext" /\ pc'.at = "ext") => pc'.ei >= pc.ei + 4
    /\ (pc.at = "sni" /\ pc'.at = "sni") => (pc'.i >= pc.i + 3 /\ pc'.ei = pc.ei)
    /\ (pc.at = "alpn" /\ pc'.at = "alpn") => (pc'.i >= pc.i + 1 /\ pc'.ei = pc.ei)
    /\ (pc.at = "ext" /\ pc'.at \in {"sni", "alpn"}) => pc'.ei = pc.ei
    /\ (pc.at \in {"sni", "alpn"} /\ pc'.at = "ext") => pc'.ei >= pc.ei + 4

\* C28: parser termination.  On every input parseClientHello, with its
\* extension loop, parseSNI and parseALPN, ends with a parsed record or an
\* error; each loop iteration advances its read offset (by 4 or more in the
\* extension loop, 3 or more in the SNI loop, 1 or more in the ALPN loop) or
\* leaves the loop.  The result is the one of the function taken whole.
C28_ParserTerminates ==
    /\ (InLoop ~> pc.at = "done")
    /\ [][LoopAdvances]_vars
    /\ [](pc.at = "done" => ret = Returned(parseClientHello(call.data)))

C28_Witness ==
    /\ pc.at = "alpn" /\ pc.i = 5
    /\ Uint16(CurBody, 0) = 6
    /\ ret.out.SNI = <<>>
    /\ ret.out.ALPN = <<ProtoH2>>

(***************************************************************************)
(*                    Properties of the matcher's choice                   *)
(***************************************************************************)
\* what the called matcher returns for the same hello bytes under each of
\* the other arguments it can be given
SameBytesResults ==
    IF call.op = "matchUTLSClientHelloGC"
    THEN {matchUTLSClientHelloGC(c[1], c[2], c[3]) : c \in {d \in MatchCallsGC : d[1] = call.data}}
    ELSE {matchUTLSClientHello(call.data)}

\* C29: matcher tie-break.  The best spec is replaced only by a strictly
\* higher score: the spec returned is the earliest one in the order of
\* allUTLSIDs that has the top score, and its score is not 0; the result is
\* a function of the ClientHello bytes and the database order.
C29_TieBreak ==
    IsMatch =>
        /\ ret.out.spec # <<>> =>
              \E k \in 1..4 :
                  /\ allUTLSIDs[k] = ret.out.spec
                  /\ ScoreOf(k) = MaxScore /\ ScoreOf(k) > 0
                  /\ \A j \in 1..(k - 1) : ScoreOf(j) < ScoreOf(k)
        /\ SameBytesResults = {ret.out}

(***************************************************************************)
(*                     Properties of registered templates                  *)
(***************************************************************************)
\* the frame of a server-direction unpack passes the template-presence check
PassesPresenceCheck ==
    /\ pc = "done" /\ call.op \in ServerOps
    /\ HasHeader /\ MagicOK /\ VersionOK /\ TypeOK
    /\ SeenTid \in DOMAIN gaseousTemplates

\* C30: no nil-template dereference.  After any sequence of registrations,
\* one with a nil template pointer included, UnpackServerHelloGaseous on a
\* frame that passes its template-presence check never dereferences a nil
\* template in fillHelloTemplate: it returns an error value or a filled
\* message.
C30_NoNilTemplateDeref ==
    PassesPresenceCheck => ret.err # PanicNilDeref

====
